---- MODULE Spec2Model ----
(***************************************************************************)
(* A model of the rule-based chat pipeline of the portfolio site: the      *)
(* localRAG module (normalizer, intent classifier, context tracker,        *)
(* response selector, response cache, conversation history) and the        *)
(* getEnhancedAnswer entry point built on it.                              *)
(*                                                                         *)
(* Strings are TLA+ strings; the JavaScript string operations the code     *)
(* uses (toLowerCase, trim, includes, split, replace, RegExp tests) are    *)
(* operators over them.  Scores that the code keeps as floating point      *)
(* numbers are kept as integers scaled by a stated factor.                 *)
(***************************************************************************)
EXTENDS Integers, Sequences, FiniteSets, TLC

(***************************************************************************)
(* JavaScript string primitives                                            *)
(***************************************************************************)

\* The character at position i (1-based) of s, as a one-character string.
CharAt(s, i) == SubSeq(s, i, i)

UpperChars == <<"A","B","C","D","E","F","G","H","I","J","K","L","M",
                "N","O","P","Q","R","S","T","U","V","W","X","Y","Z">>

LowerChars == <<"a","b","c","d","e","f","g","h","i","j","k","l","m",
                "n","o","p","q","r","s","t","u","v","w","x","y","z">>

Digits == {"0","1","2","3","4","5","6","7","8","9"}

\* String.prototype.toLowerCase on one character (ASCII letters).
LowerChar(c) ==
  IF \E k \in 1..26 : UpperChars[k] = c
  THEN LowerChars[CHOOSE k \in 1..26 : UpperChars[k] = c]
  ELSE c

RECURSIVE ConcatRange(_, _, _)
\* The concatenation of pieces[lo..hi], halving the range at each step.
ConcatRange(pieces, lo, hi) ==
  IF lo > hi THEN ""
  ELSE IF lo = hi THEN pieces[lo]
  ELSE LET mid == (lo + hi) \div 2
       IN ConcatRange(pieces, lo, mid) \o ConcatRange(pieces, mid + 1, hi)

\* The concatenation of a sequence of strings.
Concat(pieces) == ConcatRange(pieces, 1, Len(pieces))

\* String.prototype.toUpperCase on one character (ASCII letters).
UpperChar(c) ==
  IF \E k \in 1..26 : LowerChars[k] = c
  THEN UpperChars[CHOOSE k \in 1..26 : LowerChars[k] = c]
  ELSE c

\* String.prototype.toUpperCase
ToUpper(s) == Concat([i \in 1..Len(s) |-> UpperChar(CharAt(s, i))])

\* String.prototype.toLowerCase
ToLower(s) == Concat([i \in 1..Len(s) |-> LowerChar(CharAt(s, i))])

\* The characters a regular expression's \s (and trim) treats as white space.
Spaces == {" ", "\t", "\n"}

IsSpace(c) == c \in Spaces

\* The characters a regular expression's \w matches.
IsWordChar(c) ==
  \/ \E k \in 1..26 : UpperChars[k] = c \/ LowerChars[k] = c
  \/ c \in Digits
  \/ c = "_"

\* String.prototype.trim
Trim(s) ==
  LET idx == {i \in 1..Len(s) : ~IsSpace(CharAt(s, i))}
  IN IF idx = {} THEN ""
     ELSE SubSeq(s, CHOOSE i \in idx : \A j \in idx : i <= j,
                    CHOOSE i \in idx : \A j \in idx : j <= i)

\* Whether sub occurs in s starting at position i.
StartsAt(s, sub, i) ==
  /\ i >= 1
  /\ i + Len(sub) - 1 <= Len(s)
  /\ SubSeq(s, i, i + Len(sub) - 1) = sub

\* String.prototype.includes
Includes(s, sub) == \E i \in 1..(Len(s) - Len(sub) + 1) : StartsAt(s, sub, i)

\* The first position >= from at which sub occurs in s, or 0.
IndexFrom(s, sub, from) ==
  LET idx == {i \in from..(Len(s) - Len(sub) + 1) : StartsAt(s, sub, i)}
  IN IF idx = {} THEN 0 ELSE CHOOSE i \in idx : \A j \in idx : i <= j

RECURSIVE CountFrom(_, _, _)
CountFrom(s, sub, from) ==
  LET i == IndexFrom(s, sub, from)
  IN IF i = 0 \/ Len(sub) = 0 THEN 0 ELSE 1 + CountFrom(s, sub, i + Len(sub))

\* (s.match(new RegExp(sub, 'gi')) || []).length for a literal sub and a
\* lower-cased s: the number of non-overlapping occurrences, left to right.
Occurrences(s, sub) == CountFrom(s, sub, 1)

\* The elements of a finite set of integers in increasing order.
SortedSeq(S) ==
  [k \in 1..Cardinality(S) |->
     CHOOSE i \in S : Cardinality({j \in S : j < i}) = k - 1]

\* The maximal run of characters that are not white space starting at i.
PieceAt(s, i) ==
  LET ends == {j \in i..Len(s) : j = Len(s) \/ IsSpace(CharAt(s, j + 1))}
  IN SubSeq(s, i, CHOOSE j \in ends : \A k \in ends : j <= k)

\* String.prototype.split(/\s+/): the pieces between runs of white space
\* (a leading or trailing run leaves an empty piece, as in JavaScript).
SplitWs(s) ==
  LET starts == {i \in 1..Len(s) :
                   /\ ~IsSpace(CharAt(s, i))
                   /\ (i = 1 \/ IsSpace(CharAt(s, i - 1)))}
      order  == SortedSeq(starts)
      pieces == [k \in 1..Len(order) |-> PieceAt(s, order[k])]
  IN IF s = "" THEN <<"">>
     ELSE (IF IsSpace(CharAt(s, 1)) THEN <<"">> ELSE <<>>)
          \o pieces
          \o (IF IsSpace(CharAt(s, Len(s))) THEN <<"">> ELSE <<>>)

\* Array.prototype.slice(-n): the last n elements (all of them if fewer).
LastN(seq, n) ==
  IF Len(seq) <= n THEN seq ELSE SubSeq(seq, Len(seq) - n + 1, Len(seq))

\* Array.prototype.slice(0, n)
FirstN(seq, n) == IF Len(seq) <= n THEN seq ELSE SubSeq(seq, 1, n)

\* Array.prototype.includes
Has(seq, x) == \E i \in 1..Len(seq) : seq[i] = x

\* Whether the literal pieces of segs occur in s in this order, each after the
\* end of the one before: the test of the regular expression p1.*p2.*...pn.
RECURSIVE MatchSeqFrom(_, _, _)
MatchSeqFrom(s, segs, from) ==
  IF segs = <<>> THEN TRUE
  ELSE LET i == IndexFrom(s, Head(segs), from)
       IN IF i = 0 THEN FALSE
          ELSE MatchSeqFrom(s, Tail(segs), i + Len(Head(segs)))

\* RegExp.prototype.test for a case-insensitive expression given as the set of
\* its alternatives, each a sequence of literals joined by ".*".
RegexTest(s, alts) == \E a \in alts : MatchSeqFrom(ToLower(s), a, 1)

\* Whether position i of s (between characters i-1 and i) is a \b boundary.
IsBoundary(s, i) ==
  LET before == i > 1 /\ IsWordChar(CharAt(s, i - 1))
      after  == i <= Len(s) /\ IsWordChar(CharAt(s, i))
  IN before # after

\* Whether the whole word w occurs in s: the test of /\bw\b/.
HasWord(s, w) ==
  \E i \in 1..(Len(s) - Len(w) + 1) :
    StartsAt(s, w, i) /\ IsBoundary(s, i) /\ IsBoundary(s, i + Len(w))

\* s.replace(new RegExp(`\\b${w}\\b`, 'gi'), by) on a lower-cased s, for a
\* word w of letters: whole-word occurrences cannot overlap.
ReplaceWord(s, w, by) ==
  LET matchAt(i) == StartsAt(s, w, i) /\ IsBoundary(s, i) /\ IsBoundary(s, i + Len(w))
      inside(i)  == \E j \in 1..(i - 1) : matchAt(j) /\ i < j + Len(w)
  IN Concat([i \in 1..Len(s) |->
               IF matchAt(i) THEN by
               ELSE IF inside(i) THEN ""
               ELSE CharAt(s, i)])

\* s.replace(/[c]+/g, ' ') for a character class: every run of
\* characters of the class becomes one space.
Collapse(s, class) ==
  Concat([i \in 1..Len(s) |->
            IF CharAt(s, i) \in class
            THEN (IF i > 1 /\ CharAt(s, i - 1) \in class THEN "" ELSE " ")
            ELSE CharAt(s, i)])

\* Array.prototype.join
Join(seq, sep) ==
  Concat([k \in 1..Len(seq) |-> IF k = 1 THEN seq[k] ELSE sep \o seq[k]])

(***************************************************************************)
(* The fixed tables of localRAG                                            *)
(***************************************************************************)

\* Object.entries(TYPO_CORRECTIONS), in declaration order.
TYPO_CORRECTIONS ==
  << <<"experiance", "experience">>, <<"expirience", "experience">>,
     <<"experince", "experience">>,  <<"projct", "project">>,
     <<"proyect", "project">>,       <<"skilz", "skills">>,
     <<"skils", "skills">>,          <<"contct", "contact">>,
     <<"contat", "contact">>,        <<"edcuation", "education">>,
     <<"educaton", "education">>,    <<"resumee", "resume">>,
     <<"resum", "resume">> >>

\* Object.entries(SYNONYMS), in declaration order.
SYNONYMS ==
  << <<"job", <<"work", "employment", "position", "role", "career">> >>,
     <<"project", <<"app", "application", "build", "creation", "work">> >>,
     <<"skill", <<"ability", "expertise", "knowledge", "capability", "proficiency">> >>,
     <<"contact", <<"reach", "connect", "get in touch", "email", "call">> >>,
     <<"education", <<"degree", "school", "university", "study", "learning">> >>,
     <<"achievement", <<"accomplishment", "success", "award", "honor", "recognition">> >> >>

\* Object.entries(SEMANTIC_KEYWORDS), in declaration order.
SEMANTIC_KEYWORDS ==
  << <<"experience", <<"work", "job", "career", "role", "position", "internship", "employed", "worked at">> >>,
     <<"projects", <<"built", "created", "developed", "project", "portfolio", "made", "app", "application">> >>,
     <<"skills", <<"skill", "technology", "tech", "expertise", "proficient", "good at", "know", "can you">> >>,
     <<"education", <<"study", "studied", "degree", "university", "college", "school", "education", "graduated">> >>,
     <<"ai", <<"ai", "artificial intelligence", "machine learning", "ml", "llm", "rag", "chatbot", "neural">> >>,
     <<"contact", <<"contact", "reach", "email", "phone", "linkedin", "github", "connect", "get in touch">> >>,
     <<"achievements", <<"achievement", "accomplish", "proud", "award", "honor", "recognition", "success">> >>,
     <<"personal", <<"hobby", "interest", "personal", "passion", "love", "enjoy", "background", "story">> >>,
     <<"leadership", <<"leadership", "leader", "manage", "team", "coordinate", "organize", "motivate">> >>,
     <<"motivation", <<"why", "motivated", "inspire", "passion", "drive", "what sparked">> >>,
     <<"challenges", <<"challenge", "difficult", "problem", "obstacle", "struggle", "overcome">> >>,
     <<"future", <<"future", "vision", "goal", "plan", "career path", "long-term", "aspiration">> >>,
     <<"resume", <<"resume", "cv", "walk me through", "background", "tell me about yourself">> >>,
     <<"cloud", <<"cloud", "aws", "azure", "gcp", "serverless", "container", "kubernetes">> >>,
     <<"consulting", <<"consult", "business architect", "strategy", "enterprise", "client">> >>,
     <<"teaching", <<"teach", "graduate assistant", "student", "education", "mentor">> >>,
     <<"retail", <<"retail", "evm", "assistant manager", "store", "customer">> >>,
     <<"technical", <<"technical", "code", "debug", "implement", "design", "architecture">> >> >>

(***************************************************************************)
(* normalizeQuery                                                          *)
(***************************************************************************)

RECURSIVE FixTypos(_, _)
\* The forEach over TYPO_CORRECTIONS: each whole-word typo is replaced.
FixTypos(s, k) ==
  IF k > Len(TYPO_CORRECTIONS) THEN s
  ELSE FixTypos(ReplaceWord(s, TYPO_CORRECTIONS[k][1], TYPO_CORRECTIONS[k][2]), k + 1)

RECURSIVE ExpandSynonyms(_, _)
\* The forEach over SYNONYMS: the synonyms of every root the text (as grown
\* so far) contains are appended to it.
ExpandSynonyms(s, k) ==
  IF k > Len(SYNONYMS) THEN s
  ELSE ExpandSynonyms(
         IF Includes(s, SYNONYMS[k][1])
         THEN s \o " " \o Join(SYNONYMS[k][2], " ")
         ELSE s,
         k + 1)

QueryPunctuation == {"?", "!", "."}

normalizeQuery(query) ==
  LET lowered  == Trim(ToLower(query))
      fixed    == FixTypos(lowered, 1)
      expanded == ExpandSynonyms(fixed, 1)
  IN Trim(Collapse(Collapse(expanded, QueryPunctuation), Spaces))

(***************************************************************************)
(* detectIntent.  Scores are kept doubled, so that the 0.5 and 1.5 of the  *)
(* code are the integers 1 and 3.                                          *)
(***************************************************************************)

RECURSIVE KeywordScore(_, _, _)
\* The inner loop of detectIntent over one intent's keywords (doubled).
KeywordScore(queryLower, keywords, k) ==
  IF k > Len(keywords) THEN 0
  ELSE (IF Includes(queryLower, keywords[k])
        THEN (IF Len(keywords[k]) > 4 THEN 4 ELSE 2)
             + (Occurrences(queryLower, keywords[k]) - 1)
        ELSE 0)
       + KeywordScore(queryLower, keywords, k + 1)

RECURSIVE KeywordEntries(_, _)
\* intentScores after the loop over SEMANTIC_KEYWORDS: the entries of the
\* Map in insertion order, each <<intent, doubled score>>.
KeywordEntries(queryLower, k) ==
  IF k > Len(SEMANTIC_KEYWORDS) THEN <<>>
  ELSE LET score == KeywordScore(queryLower, SEMANTIC_KEYWORDS[k][2], 1)
       IN (IF score > 0 THEN << <<SEMANTIC_KEYWORDS[k][1], score>> >> ELSE <<>>)
          \o KeywordEntries(queryLower, k + 1)

\* Map.prototype.set on a Map kept as the sequence of its entries: an existing
\* key keeps its place and takes the new value, a new key goes last.
MapSet(entries, key, value) ==
  IF \E i \in 1..Len(entries) : entries[i][1] = key
  THEN [i \in 1..Len(entries) |->
          IF entries[i][1] = key THEN <<key, value>> ELSE entries[i]]
  ELSE Append(entries, <<key, value>>)

\* The regular-expression battery of detectIntent, in order:
\* <<alternatives, intent, doubled score>>.
IntentPatterns ==
  << << {<<"what do you">>, <<"what can you">>, <<"what are you">>}, "capabilities", 4 >>,
     << {<<"tell me about">>, <<"tell me more">>}, "detailed", 3 >>,
     << {<<"how did">>, <<"how do">>, <<"how can">>}, "process", 3 >>,
     << {<<"why">>}, "motivation", 4 >>,
     << {<<"when">>}, "timeline", 2 >>,
     << {<<"where">>}, "location", 2 >> >>

RECURSIVE ApplyIntentPatterns(_, _, _)
ApplyIntentPatterns(entries, query, k) ==
  IF k > Len(IntentPatterns) THEN entries
  ELSE ApplyIntentPatterns(
         IF RegexTest(query, IntentPatterns[k][1])
         THEN MapSet(entries, IntentPatterns[k][2], IntentPatterns[k][3])
         ELSE entries,
         query, k + 1)

RECURSIVE InsertBeforeTies(_, _)
\* One step of a descending sort that is not stable: e goes before the
\* entries with its own score.
InsertBeforeTies(sorted, e) ==
  IF sorted = <<>> THEN <<e>>
  ELSE IF Head(sorted)[2] > e[2]
       THEN <<Head(sorted)>> \o InsertBeforeTies(Tail(sorted), e)
       ELSE <<e>> \o sorted

RECURSIVE InsertByScore(_, _)
\* One step of a stable descending sort: e goes after every entry whose score
\* is at least its own.
InsertByScore(sorted, e) ==
  IF sorted = <<>> THEN <<e>>
  ELSE IF Head(sorted)[2] >= e[2]
       THEN <<Head(sorted)>> \o InsertByScore(Tail(sorted), e)
       ELSE <<e>> \o sorted

RECURSIVE SortByScore(_)
\* Array.prototype.sort((a, b) => b[1] - a[1]): descending by score, stable.
SortByScore(entries) ==
  IF entries = <<>> THEN <<>>
  ELSE InsertByScore(SortByScore(SubSeq(entries, 1, Len(entries) - 1)),
                     entries[Len(entries)])

\* intentScores at the end of detectIntent.
intentScores(query) ==
  ApplyIntentPatterns(KeywordEntries(ToLower(query), 1), query, 1)

detectIntent(query) ==
  LET sorted == SortByScore(intentScores(query))
  IN [i \in 1..Len(sorted) |-> sorted[i][1]]


(***************************************************************************)
(* matchQuestionPattern and getPatternResponse                             *)
(***************************************************************************)

\* The rules of matchQuestionPattern in source order: <<tests, name>>, where
\* every regular expression of tests has to match (two rules test two).
QuestionPatterns ==
  << << << {<<"walk me through your resume">>, <<"walk through your resume">>,
            <<"walk me through resume">>, <<"walk through resume">>,
            <<"tell me about yourself">>, <<"your background">>} >>, "resume_overview" >>,
     << << {<<"why", "pursue", "bachelor", "master">>, <<"motivated", "degree">>} >>, "education_motivation" >>,
     << << {<<"why", "university of oklahoma">>, <<"why", "ou">>} >>, "why_ou" >>,
     << << {<<"why", "management information">>} >>, "why_mis" >>,
     << << {<<"integrate", "business", "technical">>, <<"combine", "business", "tech">>} >>, "business_tech_integration" >>,
     << << {<<"define", "digital transformation">>, <<"what", "digital transformation">>} >>, "digital_transformation" >>,
     << << {<<"what sparked", "passion">>, <<"why", "passionate">>} >>, "passion_origin" >>,
     << << {<<"long-term", "vision">>, <<"long term", "vision">>, <<"longterm", "vision">>,
            <<"career", "vision">>, <<"future", "career">>} >>, "career_vision" >>,
     << << {<<"which", "shaped", "most">>, <<"most important", "experience">>} >>, "most_impactful" >>,
     << << {<<"objectstream">>, <<"pega", "intern">>},
           {<<"what", "do">>, <<"role">>, <<"contribute">>} >>, "objectstream_role" >>,
     << << {<<"beats", "dre">>, <<"consumer", "insight">>} >>, "beats_insights" >>,
     << << {<<"love's", "travel">>, <<"loves", "travel">>},
           {<<"21%">>, <<"latency">>, <<"reporting">>} >>, "loves_analytics" >>,
     << << {<<"graduate assistant">>, <<"teaching", "sql">>} >>, "teaching_role" >>,
     << << {<<"evm">>, <<"retail", "management">>} >>, "retail_experience" >>,
     << << {<<"avatar", "portfolio", "inspired">>, <<"3d", "portfolio", "inspired">>, <<"why", "3d">>} >>, "avatar_inspiration" >>,
     << << {<<"chibitomo", "problem">>, <<"chibitomo", "solve">>} >>, "chibitomo_purpose" >>,
     << << {<<"aesculapius", "privacy">>, <<"why", "privacy">>} >>, "aesculapius_privacy" >>,
     << << {<<"linkedin", "assistant", "inspired">>, <<"why", "chrome">>} >>, "linkedin_motivation" >>,
     << << {<<"prefer", "cloud">>, <<"which", "cloud", "platform">>} >>, "cloud_preference" >>,
     << << {<<"sql", "join">>, <<"window function">>, <<"cte">>} >>, "sql_proficiency" >>,
     << << {<<"debug", "python">>, <<"debugging", "process">>} >>, "debugging_approach" >>,
     << << {<<"langchain", "hugging", "face">>, <<"prefer", "ai", "library">>} >>, "ai_library_preference" >>,
     << << {<<"cousins", "presidential", "club">>, <<"events", "chair">>} >>, "leadership_club" >>,
     << << {<<"balance", "academic", "project">>, <<"manage", "time">>} >>, "time_management" >>,
     << << {<<"motivate", "team">>, <<"team", "motivation">>} >>, "team_motivation" >>,
     << << {<<"work", "culture">>, <<"culture", "motivate">>} >>, "work_culture" >>,
     << << {<<"handle", "failure">>, <<"deal", "criticism">>} >>, "handling_failure" >>,
     << << {<<"why", "hire", "you">>, <<"why", "should", "we">>} >>, "why_hire" >>,
     << << {<<"mistake", "grew">>, <<"learned", "from">>} >>, "learning_from_mistakes" >>,
     << << {<<"ethical", "use", "technology">>, <<"ethics", "ai">>} >>, "tech_ethics" >>,
     << << {<<"how", "contact">>, <<"reach you">>, <<"reach out to you">>, <<"get in touch">>,
            <<"your email">>, <<"your phone">>, <<"your linkedin">>, <<"your github">>} >>, "contact" >>,
     << << {<<"what", "do", "for fun">>, <<"hobbies">>, <<"interests">>, <<"outside work">>,
            <<"outside of work">>, <<"free time">>, <<"enjoy doing">>, <<"passion outside">>} >>, "hobbies" >> >>

\* Whether rule k of matchQuestionPattern matches the question.
PatternMatches(question, k) ==
  \A t \in 1..Len(QuestionPatterns[k][1]) : RegexTest(question, QuestionPatterns[k][1][t])

\* A matcher in which the last rule that matches wins.
LastMatch(question) ==
  LET hits == {k \in 1..Len(QuestionPatterns) : PatternMatches(question, k)}
  IN IF hits = {} THEN "null"
     ELSE QuestionPatterns[CHOOSE k \in hits : \A j \in hits : k >= j][2]

\* The name of the first rule that matches, or "null".
matchQuestionPattern(question) ==
  LET hits == {k \in 1..Len(QuestionPatterns) : PatternMatches(question, k)}
  IN IF hits = {} THEN "null"
     ELSE QuestionPatterns[CHOOSE k \in hits : \A j \in hits : k <= j][2]

\* The responses dictionary of getPatternResponse; each paragraph is kept by
\* its opening words.
PatternResponses ==
  [ resume_overview |-> "Great question! Let me walk you through my journey.",
    education_motivation |-> "Excellent question! I pursued both degrees because",
    why_ou |-> "University of Oklahoma was the perfect fit for me!",
    why_mis |-> "I chose **Management Information Technology over pure Computer Science**",
    business_tech_integration |-> "This is my superpower! I integrate business and technical thinking",
    digital_transformation |-> "Based on my experiences, **digital transformation is fundamentally about",
    passion_origin |-> "Great question! My passion for digital transformation sparked from",
    career_vision |-> "My **long-term vision** is to become a **Digital Transformation Architect**",
    most_impactful |-> "The experience that shaped me most was honestly",
    objectstream_role |-> "At **Objectstream as a Business Architect Intern with Pega**, my role",
    beats_insights |-> "The **Beats by Dre externship** was incredible!",
    loves_analytics |-> "Love's was such a defining experience!",
    teaching_role |-> "Being a **Graduate Assistant for Business Analysis & Database Admin**",
    retail_experience |-> "**Managing retail at EVM LLC** (2018-2022) was my first real leadership experience",
    avatar_inspiration |-> "This **Avatar Chat Portfolio** project came from a simple frustration:",
    chibitomo_purpose |-> "**ChibiTomo solves a problem I personally experienced**:",
    aesculapius_privacy |-> "**Privacy was the core philosophy** behind Aesculapius AI.",
    linkedin_motivation |-> "The **LinkedIn Sentiment Assistant** came from pure frustration:",
    cloud_preference |-> "Great technical question! I actually **prefer AWS, but I'm platform-agnostic**",
    sql_proficiency |-> "SQL is one of my strongest skills!",
    debugging_approach |-> "My **debugging process for Python** is systematic:",
    ai_library_preference |-> "Tough choice, but here's my take:",
    leadership_club |-> "Being **Events Chair for Cousins Presidential Club** was a fantastic leadership experience!",
    time_management |-> "**Balancing academics, internships, projects, and extracurriculars** required serious discipline!",
    team_motivation |-> "**Motivating teams is about understanding individual drivers and creating shared purpose**.",
    work_culture |-> "Culture that motivates me has **four pillars**:",
    handling_failure |-> "I handle failure and criticism through **four steps**:",
    why_hire |-> "You should hire me because I bring a **rare combination",
    learning_from_mistakes |-> "One of my biggest early mistakes:",
    tech_ethics |-> "**Ethical technology use is critical, especially with AI**.",
    hobbies |-> "Great question! Outside of work and tech, I'm pretty well-rounded.",
    contact |-> "I'd love to connect! Here's how to reach me:" ]

\* responses[pattern] || `Great question! Let me think about that... ${pattern}`
getPatternResponse(pattern) ==
  IF pattern \in DOMAIN PatternResponses
  THEN PatternResponses[pattern]
  ELSE "Great question! Let me think about that... " \o pattern

(***************************************************************************)
(* The conversation context and updateContext                              *)
(***************************************************************************)

\* conversationContext as declared: askedAbout is a Set, kept as the sequence
\* of its members in insertion order.
InitialContext ==
  [topics |-> <<>>, askedAbout |-> <<>>, sentiment |-> "curious", depth |-> "overview"]

\* Set.prototype.add
SetAdd(members, v) == IF Has(members, v) THEN members ELSE Append(members, v)

\* The test of /\b(w1|w2|...)\b/i
HasAnyWord(query, words) == \E w \in words : HasWord(ToLower(query), w)

\* A topics list cut with slice(0, 10).
KeepFirstTopics(topics, intents) == FirstN(topics \o intents, 10)

\* The new topics list: [...topics, ...intents].slice(-10)
AppendTopics(topics, intents) == LastN(topics \o intents, 10)

\* The sentiment rule of updateContext: the value assigned, or "keep".
SentimentRule(query) ==
  IF HasAnyWord(query, {"cool", "awesome", "interesting", "great", "amazing"})
  THEN "casual"
  ELSE IF HasAnyWord(query, {"experience", "professional", "qualification", "expertise"})
  THEN "professional"
  ELSE "keep"

\* The depth rule of updateContext: the value assigned, or "keep".
DepthRule(query) ==
  IF HasAnyWord(query, {"more", "detail", "specific", "elaborate", "deep"})
  THEN "detailed"
  ELSE IF HasAnyWord(query, {"quickly", "brief", "summary", "overview"})
  THEN "overview"
  ELSE "keep"

\* The questions put to the assistant in the checked runs.
Questions ==
  { "tell me about your projects",
    "How do you balance academic projects?",
    "Walk me through your resume",
    "hi",
    "why automation?",
    "what is your favorite color?",
    "what are your skills in AI",
    "any c++ work?",
    "tell me more",
    "Why automation!" }

\* Further questions, for the rules of detectIntent, matchQuestionPattern,
\* updateContext and the follow-up branch.
ContextQuestions ==
  { "great experience, more detail but brief",
    "When did you code?",
    "how can I contct you",
    "Why should we hire you?",
    "What have you built?",
    "tell me more" }

\* Every question put to generateRAGResponse in some run.
AllQuestions == Questions \cup ContextQuestions

\* normalizeQuery(question) of each question.
NormalizedOf == [q \in AllQuestions |-> normalizeQuery(q)]

\* question.toLowerCase().trim() of each question: the cache key, and the
\* normalized text used when normalizeQuery raises.
LowerTrimmedOf == [q \in AllQuestions |-> Trim(ToLower(q))]

\* Every string that reaches detectIntent and extractRelevantInfo.
QueryStrings ==
  {NormalizedOf[q] : q \in AllQuestions} \cup {LowerTrimmedOf[q] : q \in AllQuestions}

SentimentOf == [s \in QueryStrings |-> SentimentRule(s)]

DepthOf == [s \in QueryStrings |-> DepthRule(s)]

\* The context after the three assignments of updateContext.
Updated(context, intents, sentiment, depth) ==
  [context EXCEPT !.topics    = AppendTopics(@, intents),
                  !.sentiment = IF sentiment = "keep" THEN @ ELSE sentiment,
                  !.depth     = IF depth = "keep" THEN @ ELSE depth]

\* updateContext(query, intents) applied to the given context.
updateContext(context, query, intents) ==
  Updated(context, intents, SentimentOf[query], DepthOf[query])

(***************************************************************************)
(* calculateAdvancedSimilarity.  A score is the pair <<n, d>> standing for *)
(* n / (100 * d); a boost is given in tenths (15 for 1.5).                 *)
(***************************************************************************)

RECURSIVE SumSeq(_)
SumSeq(seq) == IF seq = <<>> THEN 0 ELSE Head(seq) + SumSeq(Tail(seq))

\* Whether new RegExp(`\\b${word}\\w*`, 'gi') raises a SyntaxError: a
\* quantifier with nothing to repeat, or an unbalanced group.
RegExpThrows(word) ==
  LET quant(c) == c \in {"*", "+", "?"}
      count(c) == Cardinality({i \in 1..Len(word) : CharAt(word, i) = c})
  IN \/ Len(word) > 0 /\ quant(CharAt(word, 1))
     \/ \E i \in 1..(Len(word) - 1) :
          /\ quant(CharAt(word, i)) \/ CharAt(word, i) = "("
          /\ CharAt(word, i + 1) \in {"*", "+"}
     \/ count("(") # count(")")

\* The end (exclusive) of the match of \bword\w* that starts at i.
PrefixMatchEnd(text, word, i) ==
  LET stops == {j \in (i + Len(word))..(Len(text) + 1) :
                  j = Len(text) + 1 \/ ~IsWordChar(CharAt(text, j))}
  IN CHOOSE j \in stops : \A k \in stops : j <= k

RECURSIVE PrefixMatchesFrom(_, _, _)
PrefixMatchesFrom(text, word, from) ==
  LET idx == {i \in from..(Len(text) - Len(word) + 1) :
                StartsAt(text, word, i) /\ IsBoundary(text, i)}
  IN IF idx = {} \/ Len(word) = 0 THEN 0
     ELSE 1 + PrefixMatchesFrom(text, word,
                PrefixMatchEnd(text, word, CHOOSE i \in idx : \A j \in idx : i <= j))

\* (textLower.match(new RegExp(`\\b${word}\\w*`, 'gi')) || []).length, for a
\* word the expression takes literally.
PrefixMatches(text, word) == PrefixMatchesFrom(text, word, 1)

\* queryLower.split(/\s+/).filter(w => w.length > 2)
QueryWords(query) == SelectSeq(SplitWs(ToLower(query)), LAMBDA w : Len(w) > 2)

\* Whether calculateAdvancedSimilarity raises for this query (its second
\* forEach builds one regular expression per query word).
SimilarityThrows(query) ==
  \E i \in 1..Len(QueryWords(query)) : RegExpThrows(QueryWords(query)[i])

\* The score calculateAdvancedSimilarity has accumulated before its return:
\* the exact-phrase term and the two forEach loops over the query words.
SimilaritySum(query, text, boost) ==
  LET queryLower == ToLower(query)
      textLower  == ToLower(text)
      queryWords == QueryWords(query)
      n          == Len(queryWords)
      exact      == IF Includes(textLower, queryLower) THEN 30 * boost ELSE 0
      position   == SumSeq([i \in 1..n |->
                      IF Includes(textLower, queryWords[i])
                      THEN (10 + (n - (i - 1))) * boost
                      ELSE 0])
      partial    == SumSeq([i \in 1..n |->
                      PrefixMatches(textLower, queryWords[i]) * 5 * boost])
  IN exact + position + partial

\* A similarity that divides by queryWords.length itself.
DivideByWordCount(query, text, boost) ==
  <<SimilaritySum(query, text, boost), Len(QueryWords(query))>>

\* return score / Math.max(queryWords.length, 1)
calculateAdvancedSimilarity(query, text, boost) ==
  <<SimilaritySum(query, text, boost),
    IF Len(QueryWords(query)) > 1 THEN Len(QueryWords(query)) ELSE 1>>

\* a > b, a >= b and a + b for scores.
ScoreGreater(a, b) == a[1] * b[2] > b[1] * a[2]
ScoreAtLeast(a, b) == a[1] * b[2] >= b[1] * a[2]
ScoreAdd(a, b) == <<a[1] * b[2] + b[1] * a[2], a[2] * b[2]>>
\* The score of the decimal number tenths / 10.
Tenths(tenths) == <<tenths * 10, 1>>

(***************************************************************************)
(* The profile document (ResumeData).  fields holds the optional fields    *)
(* the document has; an optional string of an item that is missing is "".  *)
(***************************************************************************)

\* The fallback resume literal generateRAGResponse builds when the load fails.
DefaultProfile ==
  [ fields |-> {"skills", "projects", "experience", "education"},
    name |-> "Marzook Mansoor",
    location |-> "Edmond, OK",
    bio |-> "AI/ML Engineer and Business Analyst",
    professional_summary |-> "Passionate about AI, automation, and digital transformation",
    skills |-> <<"Python", "SQL", "AI/ML", "React", "TypeScript">>,
    projects |-> <<>>, experience |-> <<>>, education |-> <<>>,
    certifications |-> <<>>, leadership |-> <<>>, honors |-> <<>>, email |-> "" ]

\* A /data/me.json with every field of the ResumeData interface.
SampleProfile ==
  [ fields |-> {"skills", "projects", "experience", "education", "certifications",
                "leadership", "honors", "contact"},
    name |-> "Marzook Mansoor",
    location |-> "Edmond, OK",
    bio |-> "AI engineer and business architect",
    professional_summary |-> "Builds AI and automation solutions",
    skills |-> <<"Python", "SQL", "LangChain", "AWS", "Tableau", "React">>,
    projects |-> << [name |-> "ChibiTomo", description |-> "Pomodoro desktop app",
                     technologies |-> "Python, PySide6", link |-> ""],
                    [name |-> "Aesculapius AI", description |-> "Local assistant for repair work",
                     technologies |-> "", link |-> "github.com/zzthecoder"] >>,
    experience |-> << [title |-> "Business Architect Intern", company |-> "Objectstream",
                       description |-> "Pega workflow automation work",
                       location |-> "Oklahoma City", duration |-> "2025"],
                      [title |-> "Business Analyst Intern", company |-> "Love's",
                       description |-> "Reporting pipelines", location |-> "", duration |-> ""] >>,
    education |-> << [degree |-> "MS MIT", school |-> "University of Oklahoma",
                      location |-> "Norman", duration |-> "2023-2025"] >>,
    certifications |-> <<"AWS Cloud Practitioner">>,
    leadership |-> <<"Events Chair">>,
    honors |-> <<"Love's Scholar">>,
    email |-> "marzook.mansoor@outlook.com" ]

\* The truthiness test of an optional field: if (resume.projects) ...
Present(resume, field) == field \in resume.fields

(***************************************************************************)
(* extractRelevantInfo                                                     *)
(***************************************************************************)

RECURSIVE InsertSection(_, _)
InsertSection(sorted, sec) ==
  IF sorted = <<>> THEN <<sec>>
  ELSE IF ScoreAtLeast(Head(sorted).score, sec.score)
       THEN <<Head(sorted)>> \o InsertSection(Tail(sorted), sec)
       ELSE <<sec>> \o sorted

RECURSIVE SortSections(_)
\* sections.sort((a, b) => b.score - a.score): descending, stable.
SortSections(sections) ==
  IF sections = <<>> THEN <<>>
  ELSE InsertSection(SortSections(SubSeq(sections, 1, Len(sections) - 1)),
                     sections[Len(sections)])

\* The greeting/introduction test of extractRelevantInfo:
\* /^(hi|hey|hello|howdy|who are you|tell me about yourself|about you)/
IsIntroQuery(queryLower) ==
  \E w \in {"hi", "hey", "hello", "howdy", "who are you", "tell me about yourself", "about you"} :
    StartsAt(queryLower, w, 1)

IntroBlock(resume) ==
  "Name: " \o resume.name \o "\n"
  \o "Location: " \o resume.location \o "\n"
  \o "Contact: "
  \o (IF Present(resume, "contact") /\ resume.email # ""
      THEN resume.email ELSE "marzook.mansoor@outlook.com")
  \o " | (405) 588-9434\n"
  \o "Bio: " \o resume.bio \o "\n"
  \o "Professional Summary: " \o resume.professional_summary \o "\n"

\* The fallback of extractRelevantInfo when no section was collected.
GeneralOverview(resume) ==
  resume.name \o " - " \o resume.professional_summary \o "\n\nKey Skills: "
  \o (IF Present(resume, "skills") /\ Join(FirstN(resume.skills, 10), ", ") # ""
      THEN Join(FirstN(resume.skills, 10), ", ")
      ELSE "Various")

ProjectSections(resume, query) ==
  LET queryLower == ToLower(query)
      scored == [i \in 1..Len(resume.projects) |->
                  LET project == resume.projects[i]
                      score == calculateAdvancedSimilarity(
                                 query, project.name \o " " \o project.description, 15)
                  IN [content |-> "PROJECT: " \o project.name \o "\n" \o project.description
                                  \o "\n" \o project.technologies \o "\n" \o project.link,
                      score |-> score,
                      type |-> "project",
                      keep |-> ScoreGreater(score, Tenths(3))
                               \/ Includes(queryLower, ToLower(project.name))]]
      matched == SelectSeq(scored, LAMBDA sec : sec.keep)
      top == FirstN(resume.projects, 3)
  IN IF matched # <<>>
     THEN [i \in 1..Len(matched) |->
             [content |-> matched[i].content, score |-> matched[i].score, type |-> "project"]]
     ELSE [i \in 1..Len(top) |->
             [content |-> "PROJECT: " \o top[i].name \o "\n" \o top[i].description,
              score |-> Tenths(5), type |-> "project"]]

SkillSections(resume, query) ==
  LET queryLower == ToLower(query)
      pick(alts) == SelectSeq(resume.skills, LAMBDA sk : RegexTest(sk, alts))
      categories ==
        << <<"ai", pick({<<"ai">>, <<"ml">>, <<"llm">>, <<"rag">>, <<"transformer">>,
                         <<"langchain">>, <<"hugging">>})>>,
           <<"languages", pick({<<"python">>, <<"sql">>, <<"javascript">>, <<"r">>, <<"php">>})>>,
           <<"cloud", pick({<<"aws">>, <<"azure">>, <<"gcp">>, <<"cloud">>})>>,
           <<"data", pick({<<"tableau">>, <<"power bi">>, <<"snowflake">>, <<"alteryx">>, <<"data">>})>>,
           <<"frameworks", pick({<<"pyside">>, <<"react">>, <<"pega">>, <<"uipath">>,
                                 <<"pyinstaller">>})>> >>
      hits == {k \in 1..Len(categories) :
                 Len(categories[k][2]) > 0 /\ Includes(queryLower, categories[k][1])}
      best == CHOOSE k \in hits : \A j \in hits : k <= j
  IN IF hits # {} /\ Join(categories[best][2], ", ") # ""
     THEN << [content |-> ToUpper(categories[best][1]) \o " SKILLS: " \o Join(categories[best][2], ", "),
              score |-> Tenths(20), type |-> "skills"] >>
     ELSE << [content |-> "KEY SKILLS:\n- AI/ML: " \o Join(FirstN(categories[1][2], 5), ", ")
                          \o "\n- Languages: " \o Join(categories[2][2], ", ")
                          \o "\n- Cloud: " \o Join(categories[3][2], ", ")
                          \o "\n- Data: " \o Join(FirstN(categories[4][2], 3), ", "),
              score |-> Tenths(15), type |-> "skills"] >>

ExperienceSections(resume, query) ==
  LET queryLower == ToLower(query)
      scored == [i \in 1..Len(resume.experience) |->
                  LET exp == resume.experience[i]
                      score == calculateAdvancedSimilarity(
                                 query, exp.title \o " " \o exp.company \o " " \o exp.description, 13)
                      total == IF Includes(queryLower, ToLower(exp.company))
                               THEN ScoreAdd(score, Tenths(20)) ELSE score
                  IN [content |-> "EXPERIENCE: " \o exp.title \o " at " \o exp.company \o "\n"
                                  \o exp.description \o "\n" \o exp.location \o " | " \o exp.duration,
                      score |-> total,
                      type |-> "experience",
                      keep |-> ScoreGreater(total, Tenths(4))]]
      matched == SelectSeq(scored, LAMBDA sec : sec.keep)
      top == FirstN(resume.experience, 3)
  IN IF matched # <<>>
     THEN [i \in 1..Len(matched) |->
             [content |-> matched[i].content, score |-> matched[i].score, type |-> "experience"]]
     ELSE [i \in 1..Len(top) |->
             [content |-> "EXPERIENCE: " \o top[i].title \o " at " \o top[i].company
                          \o "\n" \o top[i].description,
              score |-> Tenths(5), type |-> "experience"]]

\* The category tests of extractRelevantInfo, in source order.
WantsProjects(queryLower, intents) ==
  Has(intents, "projects") \/ Includes(queryLower, "project") \/ Includes(queryLower, "built")
WantsSkills(queryLower, intents) ==
  Has(intents, "skills") \/ Includes(queryLower, "skill") \/ Includes(queryLower, "expertise")
WantsExperience(queryLower, intents) ==
  \/ Has(intents, "experience") \/ Includes(queryLower, "experience")
  \/ Includes(queryLower, "work") \/ Includes(queryLower, "job")
WantsEducation(queryLower, intents) ==
  \/ Has(intents, "education") \/ Includes(queryLower, "education")
  \/ Includes(queryLower, "degree") \/ Includes(queryLower, "university")
  \/ Includes(queryLower, "master") \/ Includes(queryLower, "bachelor")
WantsCertifications(queryLower) ==
  \/ Includes(queryLower, "certification") \/ Includes(queryLower, "certified")
  \/ Includes(queryLower, "cert")
WantsLeadership(queryLower) ==
  \/ Includes(queryLower, "leadership") \/ Includes(queryLower, "leader")
  \/ Includes(queryLower, "honor") \/ Includes(queryLower, "award")

\* sections.slice(0, 5).map(s => s.content).join('\n\n')
TopContents(top) == Join([i \in 1..Len(top) |-> top[i].content], "\n\n")

\* The string extractRelevantInfo returns for the sections it collected.
InfoOf(resume, sections) ==
  IF sections # <<>>
  THEN TopContents(FirstN(SortSections(sections), 5))
  ELSE GeneralOverview(resume)

\* The section blocks of extractRelevantInfo, each entered when its test
\* (wantP ... wantL) holds: the topics added to askedAbout (in order, up to
\* the point where a block raised, if one did), whether one raised, and the
\* string returned otherwise.
PlanFor(resume, query, intents, wantP, wantS, wantX, wantE, wantC, wantL) ==
  LET askP == IF wantP THEN <<"projects">> ELSE <<>>
      askX == askP \o (IF wantS THEN <<"skills">> ELSE <<>>)
                   \o (IF wantX THEN <<"experience">> ELSE <<>>)
      askL == askX \o (IF wantE THEN <<"education">> ELSE <<>>)
                   \o (IF wantC THEN <<"certifications">> ELSE <<>>)
                   \o (IF wantL THEN <<"achievements">> ELSE <<>>)
      throwsP == /\ wantP /\ Present(resume, "projects") /\ resume.projects # <<>>
                 /\ SimilarityThrows(query)
      throwsX == /\ wantX /\ Present(resume, "experience") /\ resume.experience # <<>>
                 /\ SimilarityThrows(query)
      sections ==
        (IF wantP /\ Present(resume, "projects") THEN ProjectSections(resume, query) ELSE <<>>)
        \o (IF wantS /\ Present(resume, "skills") THEN SkillSections(resume, query) ELSE <<>>)
        \o (IF wantX /\ Present(resume, "experience") THEN ExperienceSections(resume, query) ELSE <<>>)
        \o (IF wantE /\ Present(resume, "education")
            THEN << [content |-> "EDUCATION:\n" \o Join(
                       [i \in 1..Len(resume.education) |->
                          "- " \o resume.education[i].degree \o " from " \o resume.education[i].school
                          \o " " \o resume.education[i].location \o " " \o resume.education[i].duration],
                       "\n"),
                     score |-> Tenths(15), type |-> "education"] >>
            ELSE <<>>)
        \o (IF wantC /\ Present(resume, "certifications")
            THEN << [content |-> "CERTIFICATIONS:\n" \o Join(
                       [i \in 1..Len(resume.certifications) |-> "- " \o resume.certifications[i]], "\n"),
                     score |-> Tenths(15), type |-> "certifications"] >>
            ELSE <<>>)
        \o (IF wantL /\ Present(resume, "leadership")
            THEN << [content |-> "LEADERSHIP: " \o Join(resume.leadership, " | "),
                     score |-> Tenths(13), type |-> "leadership"] >>
            ELSE <<>>)
        \o (IF wantL /\ Present(resume, "honors")
            THEN << [content |-> "HONORS: " \o Join(resume.honors, " | "),
                     score |-> Tenths(13), type |-> "honors"] >>
            ELSE <<>>)
  IN IF throwsP
     THEN [intents |-> intents, asked |-> askP, threw |-> TRUE, info |-> ""]
     ELSE IF throwsX
     THEN [intents |-> intents, asked |-> askX, threw |-> TRUE, info |-> ""]
     ELSE [intents |-> intents, asked |-> askL, threw |-> FALSE,
           info |-> InfoOf(resume, sections)]

\* extractRelevantInfo below its call of updateContext, on the lower-cased
\* query and the intents detected: the introduction block for a greeting or
\* an introduction request, the section blocks otherwise.
PlanWith(resume, query, queryLower, intents) ==
  IF IsIntroQuery(queryLower)
  THEN [intents |-> intents, asked |-> <<"intro">>, threw |-> FALSE, info |-> IntroBlock(resume)]
  ELSE PlanFor(resume, query, intents,
               WantsProjects(queryLower, intents), WantsSkills(queryLower, intents),
               WantsExperience(queryLower, intents), WantsEducation(queryLower, intents),
               WantsCertifications(queryLower), WantsLeadership(queryLower))

\* The body of extractRelevantInfo below its call of updateContext.
ExtractionPlan(resume, query) ==
  PlanWith(resume, query, ToLower(query), detectIntent(query))

\* A /data/me.json without the optional projects field.
WithoutProjects ==
  [SampleProfile EXCEPT !.fields = @ \ {"projects"}, !.projects = <<>>]

\* The documents the server may hold at /data/me.json.
Documents == {SampleProfile, WithoutProjects}

\* Every profile generateRAGResponse may work on.
Profiles == Documents \cup {DefaultProfile}

IntentsOf == [s \in QueryStrings |-> detectIntent(s)]

PlanOf == [r \in Profiles |-> [s \in QueryStrings |-> ExtractionPlan(r, s)]]

\* A detectIntent that ranks the topics of the conversation so far first.
TopicsFirst(context, query) == context.topics \o IntentsOf[query]

\* detectIntent(normalizedQuestion) as generateRAGResponse calls it while the
\* conversation context is context: the body reads its argument only.
DetectIntentCall(context, query) == IntentsOf[query]

RECURSIVE AddAll(_, _)
\* conversationContext.askedAbout.add(t) for each t of topics, in order.
AddAll(members, topics) ==
  IF topics = <<>> THEN members
  ELSE AddAll(SetAdd(members, Head(topics)), Tail(topics))

\* The context and result of extractRelevantInfo for a plan: updateContext
\* runs first and appends the intents, then come the askedAbout additions
\* made before it returned or raised.
Extracted(plan, query, context) ==
  [context |-> [updateContext(context, query, plan.intents)
                  EXCEPT !.askedAbout = AddAll(@, plan.asked)],
   appended |-> plan.intents,
   threw   |-> plan.threw,
   info    |-> plan.info]

\* extractRelevantInfo(resume, query) run in the given context.
extractRelevantInfo(resume, query, context) ==
  Extracted(PlanOf[resume][query], query, context)

(***************************************************************************)
(* Response selection of generateRAGResponse (after the guarded stages).   *)
(* Every canned paragraph is kept by its opening words; the interpolated   *)
(* parts of a template literal are kept in full.                           *)
(***************************************************************************)

\* The paragraph of the direct project handler (and of the projects branch).
ProjectResponse == "I've built some exciting projects! **Avatar Chat Portfolio** (you're in it!)"

\* /^(hi|hey|hello|howdy|yo|sup|what's up|good morning|good afternoon|good evening)[\s!?]*$/
\* tested on questionLower.trim()
IsGreeting(s) ==
  \E w \in {"hi", "hey", "hello", "howdy", "yo", "sup", "what's up",
            "good morning", "good afternoon", "good evening"} :
    /\ StartsAt(s, w, 1)
    /\ \A i \in (Len(w) + 1)..Len(s) : IsSpace(CharAt(s, i)) \/ CharAt(s, i) \in {"!", "?"}

\* /what'?s (new|latest|trending|happening)|news|recent|today|current/i
NewsPattern ==
  {<<"what's new">>, <<"whats new">>, <<"what's latest">>, <<"whats latest">>,
   <<"what's trending">>, <<"whats trending">>, <<"what's happening">>, <<"whats happening">>,
   <<"news">>, <<"recent">>, <<"today">>, <<"current">>}

\* Object.values(SEMANTIC_KEYWORDS).flat()
AllKeywords ==
  UNION {{SEMANTIC_KEYWORDS[k][2][j] : j \in 1..Len(SEMANTIC_KEYWORDS[k][2])} :
           k \in 1..Len(SEMANTIC_KEYWORDS)}

\* relevantKeywords of the smart fallback.
RelevantKeywords(questionLower) ==
  SelectSeq(SelectSeq(SplitWs(questionLower), LAMBDA w : Len(w) > 3),
            LAMBDA word : \E keyword \in AllKeywords :
                            Includes(keyword, word) \/ Includes(word, keyword))

\* The tests generateRAGResponse makes on the question text itself.
QuestionTests(question) ==
  LET questionLower == ToLower(question)
      inc(sub) == Includes(questionLower, sub)
  IN [ project      |-> inc("project"),
       pattern      |-> matchQuestionPattern(question),
       greeting     |-> IsGreeting(Trim(questionLower)),
       followUp     |-> RegexTest(question, {<<"tell me more">>, <<"what else">>, <<"anything else">>,
                                             <<"continue">>, <<"go on">>, <<"elaborate">>}),
       experience   |-> inc("experience") \/ inc("work") \/ inc("job"),
       love         |-> inc("love"),
       pega         |-> inc("pega") \/ inc("objectstream"),
       skills       |-> inc("skill") \/ inc("expertise") \/ inc("what can you do"),
       aiOrMl       |-> inc("ai") \/ inc("ml"),
       cloud        |-> inc("cloud"),
       education    |-> \/ inc("education") \/ inc("degree") \/ inc("university")
                        \/ HasWord(questionLower, "ou") \/ inc("oklahoma"),
       ai           |-> inc("ai") \/ inc("machine learning") \/ inc("llm"),
       news         |-> RegexTest(questionLower, NewsPattern),
       tech         |-> RegexTest(questionLower, {<<"ai">>, <<"technology">>, <<"tech">>}),
       contact      |-> inc("contact") \/ inc("reach") \/ inc("email") \/ inc("phone"),
       achievements |-> inc("achievement") \/ inc("proud") \/ inc("accomplishment"),
       personal     |-> inc("personal") \/ inc("background") \/ inc("story") \/ inc("passion"),
       consulting   |-> inc("consult") \/ inc("business") \/ inc("strategy"),
       why          |-> inc("why"),
       hire         |-> RegexTest(questionLower, {<<"hire">>, <<"should we">>, <<"choose you">>,
                                                  <<"pick you">>}),
       keywords     |-> RelevantKeywords(questionLower) ]

\* The five greetings; Math.random picks one (pick is 0..4).
Greeting(context, pick) ==
  CASE pick = 0 ->
         "Hey there! I'm Marzook - great to meet you! "
         \o (IF context.sentiment = "casual"
             THEN "I'm loving this 3D avatar experience I built!"
             ELSE "I'm an AI engineer and Business Architect passionate about solving real problems with technology.")
    [] pick = 1 ->
         "Hi! I'm Marzook Mansoor from Edmond, OK. "
         \o (IF context.depth = "overview" THEN "Quick intro:" ELSE "Let me tell you a bit about myself:")
         \o " I'm finishing up my Master's in IT while working on exciting AI and automation projects."
    [] pick = 2 ->
         "Hello! "
         \o (IF Len(context.askedAbout) > 0 THEN "Good to continue our chat!" ELSE "Good to see you.")
         \o " I'm Marzook, and I'm passionate about how AI and technology can drive real business value. "
         \o (IF context.sentiment = "professional"
             THEN "I have experience in digital transformation, cloud architecture, and analytics."
             ELSE "I build everything from 3D portfolio sites to intelligent desktop assistants.")
    [] pick = 3 ->
         "Hey! Marzook here I blend AI, analytics, cloud architecture, and business strategy to create meaningful solutions. "
         \o (IF Has(context.topics, "ai")
             THEN "Since you're interested in AI, I work extensively with LLMs and RAG systems!"
             ELSE "Currently exploring opportunities in AI and digital transformation.")
    [] OTHER ->
         "Hi there! I'm Marzook. "
         \o (IF Has(context.askedAbout, "projects")
             THEN "You've already seen some of my projects - thanks for asking!"
             ELSE "I love building AI-powered applications and automating complex business processes.")
         \o " From analytics pipelines that cut reporting time by 21% to intelligent desktop assistants, I'm all about practical innovation."

ContactResponse(context) ==
  "I'd love to connect! **Email:** marzook.mansoor@outlook.com | **Phone:** (405) 588-9434 | **LinkedIn:** linkedin.com/in/marzook-mansoor | **GitHub:** github.com/zzthecoder. "
  \o (IF context.sentiment = "professional"
      THEN "Feel free to reach out about opportunities, collaborations, or technical discussions."
      ELSE "Whether it's a project idea, a question about tech, or just saying hi, I'm always open to chatting!")
  \o " "
  \o (IF Len(context.askedAbout) > 1 THEN "Thanks for the great questions so far!" ELSE "")
  \o " ."

SmartFallback(tests, intents, context) ==
  "That's an interesting question"
  \o (IF Len(tests.keywords) > 0
      THEN " about " \o Join(FirstN(tests.keywords, 2), " and ") ELSE "")
  \o "! "
  \o (IF Len(context.askedAbout) > 0
      THEN "We've talked about " \o Join(LastN(context.askedAbout, 3), ", ") \o " - " ELSE "")
  \o (IF Len(intents) > 0
      THEN "It sounds like you're interested in my " \o intents[1] \o ". " ELSE "")
  \o "I can tell you about my **work experience** (Love's, Objectstream/Pega, Beats), **AI projects** (Avatar Chat, ChibiTomo, Aesculapius AI), **technical skills** (Python, SQL, AI/ML, cloud), **education** (Master's & Bachelor's from OU), or **anything else**."

\* The string the top-level catch of generateRAGResponse returns.
Apology(context) ==
  "I appreciate the question! "
  \o (IF Len(context.askedAbout) > 0 THEN "We've had a great chat, but " ELSE "")
  \o "I'm having a brief technical moment. Could you try rephrasing or asking about my projects, experience, skills, or education? I promise I'll give you a thoughtful answer!"

\* The branches of generateRAGResponse that call cacheResponse before returning.
CachingBranches == {"project_direct", "pattern", "why", "fallback"}

\* The chain of tests after the guarded stages, in source order: the branch
\* taken, the response returned, the context left (askedAbout additions) and
\* whether the branch calls cacheResponse.
SelectResponse(tests, intents, context, pick) ==
  LET asked(topic) == [context EXCEPT !.askedAbout = SetAdd(@, topic)]
      out(branch, response, ctx) ==
        [branch |-> branch, response |-> response, context |-> ctx,
         store |-> branch \in CachingBranches]
      isFollowUp == Len(context.topics) > 0 /\ tests.followUp
      lastTopic  == context.topics[Len(context.topics)]
  IN IF tests.project
     THEN out("project_direct", ProjectResponse, context)
     ELSE IF tests.pattern # "null"
     THEN out("pattern", getPatternResponse(tests.pattern), context)
     ELSE IF tests.greeting
     THEN out("greeting", Greeting(context, pick), context)
     ELSE IF isFollowUp /\ lastTopic \in {"projects", "project"}
     THEN out("follow_up", "Absolutely! So beyond the projects I mentioned, I also worked on capstone projects at OU", context)
     ELSE IF Has(intents, "projects") \/ tests.project
     THEN out("projects",
              IF context.depth = "detailed"
              THEN "Let me dive deeper into my projects! **Avatar Chat Portfolio** (what you're using now!) is my flagship"
              ELSE ProjectResponse,
              asked("projects"))
     ELSE IF Has(intents, "experience") \/ tests.experience
     THEN out("experience",
              IF tests.love
              THEN "Love's Travel Stop was amazing! As a Business Analyst Intern (May-Aug 2025)"
              ELSE IF tests.pega
              THEN "I'm currently a Business Architect Intern at Objectstream working with Pega (Sept-Dec 2025)!"
              ELSE "I've had some incredible experiences! Right now I'm wrapping up my Master's in IT from OU",
              asked("experience"))
     ELSE IF Has(intents, "skills") \/ tests.skills
     THEN out("skills",
              IF tests.aiOrMl
              THEN "AI/ML is my sweet spot! I specialize in **LLMs, RAG systems, LangChain, Transformers"
              ELSE IF tests.cloud
              THEN "Cloud is where I thrive! I work across **AWS (pursuing Cloud Practitioner certification), Azure, and GCP**."
              ELSE "I'm pretty versatile! **Core strengths:** Python, SQL, AI/ML",
              asked("skills"))
     ELSE IF Has(intents, "education") \/ tests.education
     THEN out("education",
              "I just completed my **Master of Science in Management Information Technology** at the University of Oklahoma",
              asked("education"))
     ELSE IF (Has(intents, "ai") \/ tests.ai) /\ ~tests.news
     THEN out("ai", "AI is my absolute passion! I'm particularly excited about **LLMs and RAG", asked("ai"))
     ELSE IF tests.news /\ tests.tech
     THEN out("ai_news", "That's a great question about current AI trends!", context)
     ELSE IF Has(intents, "contact") \/ tests.contact
     THEN out("contact", ContactResponse(asked("contact")), asked("contact"))
     ELSE IF Has(intents, "achievements") \/ tests.achievements
     THEN out("achievements", "I'm proud of a few things! **Academically:** Completed my Master's while working full-time",
              asked("achievements"))
     ELSE IF Has(intents, "personal") \/ tests.personal
     THEN out("personal", "Thanks for asking! I was born in India and moved to Oklahoma when I was 8", context)
     ELSE IF tests.consulting
     THEN out("consulting", "Great question! My consulting experience comes from my work at **Objectstream with Pega**", context)
     ELSE IF (Has(intents, "motivation") \/ tests.why) /\ ~tests.hire
     THEN out("why", "Great philosophical question! Why do I do this? **Honestly:**", context)
     ELSE out("fallback", SmartFallback(tests, intents, context), context)

QuestionTestsOf == [q \in AllQuestions |-> QuestionTests(q)]

(***************************************************************************)
(* The response cache                                                      *)
(***************************************************************************)

\* CACHE_TTL = 5 * 60 * 1000 milliseconds
CACHE_TTL == 5 * 60 * 1000

\* The size above which cacheResponse deletes the first key.
CacheLimit == 50

\* query.toLowerCase().trim()
CacheKey(query) == IF query \in AllQuestions THEN LowerTrimmedOf[query] ELSE Trim(ToLower(query))

\* The cache is the Map in insertion order: a sequence of <<key, entry>>.
CacheKeys(cache) == [i \in 1..Len(cache) |-> cache[i][1]]

CacheHas(cache, key) == \E i \in 1..Len(cache) : cache[i][1] = key

CacheGet(cache, key) == cache[CHOOSE i \in 1..Len(cache) : cache[i][1] = key][2]

\* A getCachedResponse that still returns an entry whose age equals the TTL.
StaleHit(cache, query, now) ==
  IF CacheHas(cache, CacheKey(query))
     /\ now - CacheGet(cache, CacheKey(query)).timestamp <= CACHE_TTL
  THEN [hit |-> TRUE, response |-> CacheGet(cache, CacheKey(query)).response, cache |-> cache]
  ELSE [hit |-> FALSE, response |-> "",
        cache |-> SelectSeq(cache, LAMBDA e : e[1] # CacheKey(query))]

\* getCachedResponse(query) at time now: whether a response is returned,
\* the response, and the cache it leaves.
getCachedResponse(cache, query, now) ==
  LET cacheKey == CacheKey(query)
      found    == CacheHas(cache, cacheKey)
      cached   == CacheGet(cache, cacheKey)
  IN IF found /\ now - cached.timestamp < CACHE_TTL
     THEN [hit |-> TRUE, response |-> cached.response, cache |-> cache]
     ELSE IF found /\ now - cached.timestamp >= CACHE_TTL
     THEN [hit |-> FALSE, response |-> "",
           cache |-> SelectSeq(cache, LAMBDA e : e[1] # cacheKey)]
     ELSE [hit |-> FALSE, response |-> "", cache |-> cache]

\* A cacheResponse without the size limit.
UnboundedStore(cache, query, response, now) ==
  MapSet(cache, CacheKey(query), [response |-> response, timestamp |-> now])

\* A cacheResponse that deletes the last key instead of the first.
EvictNewest(cache, query, response, now) ==
  IF Len(MapSet(cache, CacheKey(query), [response |-> response, timestamp |-> now])) > CacheLimit
  THEN FirstN(MapSet(cache, CacheKey(query), [response |-> response, timestamp |-> now]), CacheLimit)
  ELSE MapSet(cache, CacheKey(query), [response |-> response, timestamp |-> now])

\* cacheResponse(query, response) at time now: the cache it leaves.
cacheResponse(cache, query, response, now) ==
  LET stored == MapSet(cache, CacheKey(query), [response |-> response, timestamp |-> now])
  IN IF Len(stored) > CacheLimit THEN Tail(stored) ELSE stored

(***************************************************************************)
(* The conversation history (localRAG and enhancedChat keep one each)      *)
(***************************************************************************)

\* The number of messages addToConversationHistory keeps.
HistoryLimit == 12

\* An addToConversationHistory that drops the new message once the array is full.
KeepOldest(history, role, content, now) ==
  FirstN(Append(history, [role |-> role, content |-> content, timestamp |-> now]), HistoryLimit)

\* addToConversationHistory(role, content) at time now.
addToConversationHistory(history, role, content, now) ==
  LET pushed == Append(history, [role |-> role, content |-> content, timestamp |-> now])
  IN IF Len(pushed) > HistoryLimit THEN LastN(pushed, HistoryLimit) ELSE pushed

\* clearConversationHistory()
clearConversationHistory(history) == <<>>

(***************************************************************************)
(* generateRAGResponse after the cache check                               *)
(***************************************************************************)

\* The stages of generateRAGResponse in which an exception may be raised.
Stages == {"normalize", "intent", "extract", "select"}

\* What the guarded stages and the selection chain leave behind.  escaped: an
\* exception left the stage guards and reached the catch around the whole body.
Outcome(normalizedQuestion, intents, extraction, selected, faults) ==
  [ normalizedQuestion |-> normalizedQuestion,
    intents      |-> intents,
    relevantInfo |-> IF extraction.threw THEN "" ELSE extraction.info,
    extractThrew |-> extraction.threw,
    appended     |-> extraction.appended,
    escaped      |-> "select" \in faults,
    branch       |-> IF "select" \in faults THEN "none" ELSE selected.branch,
    response     |-> IF "select" \in faults THEN "" ELSE selected.response,
    store        |-> "select" \notin faults /\ selected.store,
    context      |-> IF "select" \in faults THEN extraction.context ELSE selected.context ]

\* The selection chain, run in the context extraction left.
Selection(question, normalizedQuestion, intents, extraction, faults, pick) ==
  Outcome(normalizedQuestion, intents, extraction,
          SelectResponse(QuestionTestsOf[question], intents, extraction.context, pick),
          faults)

\* The guarded detectIntent and extractRelevantInfo stages.
Extraction(question, normalizedQuestion, resume, context, faults, pick) ==
  Selection(question, normalizedQuestion,
            IF "intent" \in faults THEN <<>>
            ELSE DetectIntentCall(context, normalizedQuestion),
            IF "extract" \in faults
            THEN [context |-> context, appended |-> <<>>, threw |-> TRUE, info |-> ""]
            ELSE extractRelevantInfo(resume, normalizedQuestion, context),
            faults, pick)

\* A generateRAGResponse without the try/catch around each stage: an
\* exception raised in a stage leaves the body like one raised in the
\* selection chain.
UnguardedPipeline(question, resume, context, faults, pick) ==
  Extraction(question,
             IF "normalize" \in faults THEN LowerTrimmedOf[question] ELSE NormalizedOf[question],
             resume, context,
             IF faults \cap {"normalize", "intent", "extract"} # {}
             THEN faults \cup {"select"} ELSE faults,
             pick)

\* The guarded stages and the selection chain, run on the profile resume with
\* exceptions raised in the stages of faults.
Pipeline(question, resume, context, faults, pick) ==
  Extraction(question,
             IF "normalize" \in faults THEN LowerTrimmedOf[question] ELSE NormalizedOf[question],
             resume, context, faults, pick)

\* A generateRAGResponse without the catch around its body: the exception
\* rejects the promise.
Rethrow(context) == [status |-> "rejected", response |-> ""]

\* The catch around the whole body of generateRAGResponse: what the promise
\* settles with when an exception reached it.
TopLevelCatch(context) == [status |-> "resolved", response |-> Apology(context)]

\* What the promise of generateRAGResponse settles with.
Settle(outcome) ==
  IF outcome.escaped
  THEN TopLevelCatch(outcome.context)
  ELSE [status |-> "resolved", response |-> outcome.response]

\* The fallbackAnswer of getEnhancedAnswer.
FallbackAnswer ==
  "Hey there! I'm Marzook Mansoor - an AI/ML engineer and Business Analyst passionate about solving real problems with technology."

\* The answer getEnhancedAnswer resolves with, given how generateRAGResponse settled.
EnhancedAnswer(settled) ==
  IF settled.status = "resolved" THEN settled.response ELSE FallbackAnswer

(***************************************************************************)
(* The state                                                               *)
(***************************************************************************)

VARIABLES
  document,             \* what the server holds at /data/me.json
  cachedResumeData,     \* <<>> for null, <<profile>> once loaded
  responseCache,        \* the Map, as <<key, [response, timestamp]>> in insertion order
  clock,                \* Date.now()
  conversationContext,
  conversationHistory,  \* the history array of localRAG
  chatHistory,          \* the history array of enhancedChat
  pending,              \* calls of getEnhancedAnswer awaiting loadResumeData
  calls,                \* calls of getEnhancedAnswer started
  ticks,                \* advances of the clock
  adds,                 \* direct calls of addToConversationHistory, per module
  log,                  \* history variable: the call that returned last
  answered,             \* history variable: per cache key, the last call that returned
  appended,             \* history variable: every intent updateContext appended
  addedRag,             \* history variable: entries added to conversationHistory since the last clear
                        \* (from the entries kept, in a state entered after earlier questions)
  addedChat,            \* history variable: entries added to chatHistory since the last clear
  similarity,           \* the last call of calculateAdvancedSimilarity made on its own
  matching,             \* the last call of matchQuestionPattern made on its own
  chat,                 \* the state of ChatWindow and the question it waits for
  speech,               \* window.speechSynthesis
  avatar                \* the refs and timers of the chat's SimpleAvatar

vars == <<document, cachedResumeData, responseCache, clock, conversationContext,
          conversationHistory, chatHistory, pending, calls, ticks, adds, log,
          answered, appended, addedRag, addedChat, similarity, matching, chat, speech, avatar>>

\* Bounds of the checked runs.
MaxCalls == 2
MaxFaultCalls == 2
MaxLongCalls == 4
MaxCacheCalls == 2
MaxContextCalls == 2
MaxTicks == 1
MaxAdds == 14
Headroom == 1

Keys == {CacheKey(q) : q \in AllQuestions}

\* normalizeQuery of the question a cache key was made from (normalizeQuery
\* begins with the toLowerCase().trim() that makes the key).
NormalizedKeyOf == [k \in Keys |-> normalizeQuery(k)]

\* The response of a fresh entry the cache holds under another key whose
\* question has the same normalized text as query, or "" if there is none.
FreshAlias(cache, query, now) ==
  LET key  == CacheKey(query)
      same == {i \in 1..Len(cache) :
                 /\ cache[i][1] \in Keys
                 /\ cache[i][1] # key
                 /\ NormalizedKeyOf[cache[i][1]] = NormalizedKeyOf[key]
                 /\ now - cache[i][2].timestamp < CACHE_TTL}
  IN IF same = {} THEN "" ELSE cache[CHOOSE i \in same : TRUE][2].response

NoLookup ==
  [found |-> FALSE, age |-> 0, stored |-> "", hit |-> FALSE, response |-> "",
   removed |-> FALSE, othersKept |-> TRUE, alias |-> ""]

(***************************************************************************)
(* matchQuestionPattern called on its own                                  *)
(***************************************************************************)

\* The pieces of an alternative, separated by one space: the shortest kind
\* of question the alternative matches.
RECURSIVE JoinWords(_)
JoinWords(words) ==
  IF Len(words) = 0 THEN ""
  ELSE IF Len(words) = 1 THEN words[1]
  ELSE words[1] \o " " \o JoinWords(Tail(words))

\* For a rule, the questions made of one alternative of each of its tests.
RECURSIVE AlternativeQuestions(_, _)
AlternativeQuestions(tests, i) ==
  IF i = Len(tests) THEN {JoinWords(a) : a \in tests[i]}
  ELSE {JoinWords(a) \o " " \o rest : a \in tests[i], rest \in AlternativeQuestions(tests, i + 1)}

\* The words the two alternatives of the why_hire rule are made of, and every
\* question of one or two of them.
WhyHireWords == {"why", "hire", "you", "should", "we"}

WhyHireQuestions ==
  {JoinWords(words) : words \in UNION {[1..n -> WhyHireWords] : n \in 1..2}}

\* The questions put to matchQuestionPattern on its own: for every rule and
\* every alternative of its tests a question the alternative matches, the
\* questions made of the words of why_hire, and questions as a visitor would
\* phrase them.
PatternQuestions ==
  UNION {AlternativeQuestions(QuestionPatterns[k][1], 1) : k \in 1..Len(QuestionPatterns)}
    \cup WhyHireQuestions
    \cup {"Why should we hire you?", "Why should we pick Marzook?", "WHY HIRE YOU",
          "So, why would a company hire you?", "Why should we?",
          "How do you manage your time?", "What is your favorite color?"}

\* What matchQuestionPattern returns for each of them.
PatternOf == [q \in PatternQuestions |-> matchQuestionPattern(q)]

\* No call of matchQuestionPattern made on its own yet.
NoMatching == [called |-> FALSE, question |-> "", pattern |-> "null"]

\* matchQuestionPattern(question) called on its own.
Matching(question) ==
  /\ matching' = [called |-> TRUE, question |-> question, pattern |-> PatternOf[question]]
  /\ UNCHANGED <<document, cachedResumeData, responseCache, clock, conversationContext,
                 conversationHistory, chatHistory, pending, calls, ticks, adds, log,
                 answered, appended, addedRag, addedChat, similarity, chat, speech, avatar>>

(***************************************************************************)
(* ChatWindow, window.speechSynthesis and the chat's SimpleAvatar.  Time   *)
(* is counted in milliseconds and advances in steps of Step.  The avatar   *)
(* has loaded: its mixer, mesh and clips are there, the two hooks are on   *)
(* window and the first idle clip plays.                                   *)
(***************************************************************************)

\* The variables of the assistant itself, which the chat window leaves alone.
ragVars == <<document, cachedResumeData, responseCache, clock, conversationContext,
             conversationHistory, chatHistory, pending, calls, ticks, adds, log,
             answered, appended, addedRag, addedChat, similarity, matching>>

\* The delay of setTimeout in startTalking, in stopTalking, and in
\* handleSend and handleSuggestedQuestion.
START_DELAY == 500
IDLE_DELAY == 300
RESPONSE_DELAY == 500

\* The longest step of time, and the questions one visitor sends.
Step == 250
MaxSends == 1

\* What the input holds when the visitor presses Enter.
Inputs == {"", "  ", "What are your key skills?"}

\* suggestedQuestions, two of the eight.
suggestedQuestions == {"What are your key skills?", "Tell me about your projects"}

\* What getEnhancedAnswer resolves with: { answer } alone (the definition that
\* wraps generateRAGResponse), or { answer, sources } with an empty or a
\* filled array (the definition with tools).
Resolutions == {"answer", "empty", "listed"}

NoRequest == [stage |-> "none", muted |-> FALSE, resolved |-> "answer", due |-> 0]

\* useState of ChatWindow; request is the handler that is waiting, with the
\* isMuted its render closed over.
InitialChat ==
  [messages   |-> << [role |-> "assistant", sources |-> FALSE] >>,
   isTyping   |-> FALSE,
   isSpeaking |-> FALSE,
   isMuted    |-> FALSE,
   request    |-> NoRequest]

\* The utterance of the queue, the events owed to utterances that cancel()
\* removed, and history: the utterances handed to speechSynthesis.speak.
InitialSpeech == [utterance |-> "none", removed |-> 0, spoken |-> 0]

\* The refs of SimpleAvatar; intervals are the running setInterval ids,
\* talkingInterval is window['chat-avatar_talkingInterval'] (0: undefined);
\* loopTimeout is the timer animationLoopTimeoutRef refers to ("talking" or
\* "idle" by the clip it will play, "null" for none or one that has fired),
\* loopTimers counts the pending timers the ref has let go of, plays counts
\* the calls of playRandomAnimation waiting for their fades (TRUE: isLooping).
\* History: the hook called last.
InitialAvatar ==
  [isTalkingRef        |-> FALSE,
   talkingInterval     |-> 0,
   intervals           |-> {},
   startTimers         |-> <<>>,
   idleTimers          |-> <<>>,
   loopTimeout         |-> "idle",
   loopTimers          |-> [talking \in BOOLEAN |-> 0],
   plays               |-> [isLooping \in BOOLEAN |-> 0],
   currentAnimationRef |-> "idle",
   lastHook            |-> "none"]

\* if (animationLoopTimeoutRef.current) { clearTimeout(...); ... = null }
ClearLoopTimeout(av) == [av EXCEPT !.loopTimeout = "null"]

\* animationLoopTimeoutRef.current = setTimeout(...): the ref lets go of the
\* timer it held, which stays pending.
SetLoopTimeout(av, talking) ==
  [av EXCEPT !.loopTimeout = IF talking THEN "talking" ELSE "idle",
             !.loopTimers  = IF av.loopTimeout = "null" THEN @
                             ELSE [@ EXCEPT ![av.loopTimeout = "talking"] = @ + 1]]

\* playRandomAnimation up to its first await: the held timer is cleared and
\* the call waits for the fades.
PlayBegin(av, isLooping) ==
  [ClearLoopTimeout(av) EXCEPT !.plays = [@ EXCEPT ![isLooping] = @ + 1]]

\* playRandomAnimation after the fades: the clip becomes the current one and
\* the next one is queued by what isTalkingRef holds now.
PlayEnd(av, isLooping) ==
  LET played == [av EXCEPT !.plays = [@ EXCEPT ![isLooping] = @ - 1],
                           !.currentAnimationRef = IF isLooping THEN "talking" ELSE "idle"]
  IN IF isLooping /\ av.isTalkingRef THEN SetLoopTimeout(played, TRUE)
     ELSE IF ~av.isTalkingRef THEN SetLoopTimeout(played, FALSE)
     ELSE played

\* window.chat_avatar_startTalking(): everything waits for a timer.
startTalking(av) ==
  [av EXCEPT !.startTimers = Append(@, START_DELAY),
             !.lastHook    = "start"]

\* The callback of that timer.
StartTalkingNow(av) ==
  LET talking == PlayBegin(ClearLoopTimeout([av EXCEPT !.isTalkingRef = TRUE]), TRUE)
      id      == av.talkingInterval + 1
  IN [talking EXCEPT !.talkingInterval = id, !.intervals = @ \cup {id}]

\* window.chat_avatar_stopTalking()
stopTalking(av) ==
  LET stopped == [av EXCEPT !.isTalkingRef = FALSE,
                            !.intervals    = @ \ {av.talkingInterval},
                            !.lastHook     = "stop"]
  IN [ClearLoopTimeout(stopped) EXCEPT !.idleTimers = Append(@, IDLE_DELAY)]

\* The callback of the timer of stopTalking.
BackToIdle(av) == IF ~av.isTalkingRef THEN PlayBegin(av, FALSE) ELSE av

\* The callback of a loop timer, the one the ref holds or one it let go of:
\* the clip is played if isTalkingRef is still what the timer was set for.
LoopAgain(av, talking, held) ==
  LET fired == IF held THEN [av EXCEPT !.loopTimeout = "null"]
               ELSE [av EXCEPT !.loopTimers = [@ EXCEPT ![talking] = @ - 1]]
  IN IF talking = av.isTalkingRef THEN PlayBegin(fired, talking) ELSE fired

\* window.speechSynthesis.cancel(): the queue is emptied; whether the engine
\* reports the removal to the handlers of the removed utterance is its choice.
cancel(sp, reported) ==
  [sp EXCEPT !.utterance = "none",
             !.removed   = IF sp.utterance # "none" /\ reported THEN @ + 1 ELSE @]

\* speak(text) of a render that saw isMuted as given.
speak(sp, isMuted, reported) ==
  IF isMuted THEN sp
  ELSE [cancel(sp, reported) EXCEPT !.utterance = "pending", !.spoken = @ + 1]

\* The user messages of the list.
UserMessages(messages) == SelectSeq(messages, LAMBDA m : m.role = "user")

\* The part handleSend and handleSuggestedQuestion share up to the await; the
\* input and the buttons are disabled while isTyping.
Submit ==
  /\ ~chat.isTyping
  /\ Len(UserMessages(chat.messages)) < MaxSends
  /\ chat' = [chat EXCEPT !.messages = Append(@, [role |-> "user", sources |-> FALSE]),
                          !.isTyping = TRUE,
                          !.request  = [stage |-> "awaiting", muted |-> chat.isMuted,
                                        resolved |-> "answer", due |-> 0]]
  /\ UNCHANGED <<speech, avatar>>
  /\ UNCHANGED ragVars

handleSend(input) ==
  /\ Trim(input) # ""
  /\ Submit

handleSuggestedQuestion(question) ==
  /\ question \in suggestedQuestions
  /\ Submit

\* getEnhancedAnswer resolves and the handler sets its timer.
Resolved(resolution) ==
  /\ chat.request.stage = "awaiting"
  /\ chat' = [chat EXCEPT !.request = [@ EXCEPT !.stage = "delayed", !.resolved = resolution,
                                                !.due = RESPONSE_DELAY]]
  /\ UNCHANGED <<speech, avatar>>
  /\ UNCHANGED ragVars

\* The callback of that timer: sources.length raises when there is no
\* sources, before any state is set.
ShowAnswer(reported) ==
  /\ chat.request.stage = "delayed"
  /\ chat.request.due = 0
  /\ IF chat.request.resolved = "answer"
     THEN /\ chat' = [chat EXCEPT !.request = NoRequest]
          /\ UNCHANGED speech
     ELSE /\ chat' = [chat EXCEPT
                        !.messages = Append(@, [role |-> "assistant",
                                                sources |-> chat.request.resolved = "listed"]),
                        !.isTyping = FALSE,
                        !.request  = NoRequest]
          /\ speech' = speak(speech, chat.request.muted, reported)
  /\ UNCHANGED avatar
  /\ UNCHANGED ragVars

\* utterance.onstart
UtteranceStart ==
  /\ speech.utterance = "pending"
  /\ speech' = [speech EXCEPT !.utterance = "speaking"]
  /\ chat' = [chat EXCEPT !.isSpeaking = TRUE]
  /\ avatar' = startTalking(avatar)
  /\ UNCHANGED ragVars

\* utterance.onend
UtteranceEnd ==
  /\ speech.utterance = "speaking"
  /\ speech' = [speech EXCEPT !.utterance = "none"]
  /\ chat' = [chat EXCEPT !.isSpeaking = FALSE]
  /\ avatar' = stopTalking(avatar)
  /\ UNCHANGED ragVars

\* utterance.onerror, of the utterance of the queue
UtteranceError ==
  /\ speech.utterance # "none"
  /\ speech' = [speech EXCEPT !.utterance = "none"]
  /\ chat' = [chat EXCEPT !.isSpeaking = FALSE]
  /\ avatar' = stopTalking(avatar)
  /\ UNCHANGED ragVars

\* utterance.onerror (or onend), of an utterance that cancel() removed
UtteranceRemoved ==
  /\ speech.removed > 0
  /\ speech' = [speech EXCEPT !.removed = @ - 1]
  /\ chat' = [chat EXCEPT !.isSpeaking = FALSE]
  /\ avatar' = stopTalking(avatar)
  /\ UNCHANGED ragVars

\* onToggleMute
ToggleMute ==
  /\ chat' = [chat EXCEPT !.isMuted = ~chat.isMuted]
  /\ UNCHANGED <<speech, avatar>>
  /\ UNCHANGED ragVars

\* stopSpeech, of the button shown while isSpeaking
stopSpeech(reported) ==
  /\ chat.isSpeaking
  /\ speech' = cancel(speech, reported)
  /\ chat' = [chat EXCEPT !.isSpeaking = FALSE]
  /\ avatar' = stopTalking(avatar)
  /\ UNCHANGED ragVars

\* The timers with a delay that are pending.
Delays ==
  (IF chat.request.stage = "delayed" THEN {chat.request.due} ELSE {})
    \cup {avatar.startTimers[i] : i \in 1..Len(avatar.startTimers)}
    \cup {avatar.idleTimers[i] : i \in 1..Len(avatar.idleTimers)}

\* The time to the next timer that is due, a step at most.
Passing == CHOOSE d \in Delays \cup {Step} : \A e \in Delays \cup {Step} : d <= e

\* Time passes, no further than the next timer that is due.
TimePasses ==
  /\ Delays # {}
  /\ 0 \notin Delays
  /\ chat' = [chat EXCEPT !.request = [@ EXCEPT !.due = IF @ > Passing THEN @ - Passing ELSE 0]]
  /\ avatar' = [avatar EXCEPT
                  !.startTimers = [i \in 1..Len(avatar.startTimers) |->
                                     avatar.startTimers[i] - Passing],
                  !.idleTimers  = [i \in 1..Len(avatar.idleTimers) |->
                                     avatar.idleTimers[i] - Passing]]
  /\ UNCHANGED speech
  /\ UNCHANGED ragVars

\* The timer of startTalking fires.
StartTimer ==
  /\ avatar.startTimers # <<>>
  /\ Head(avatar.startTimers) = 0
  /\ avatar' = StartTalkingNow([avatar EXCEPT !.startTimers = Tail(@)])
  /\ UNCHANGED <<chat, speech>>
  /\ UNCHANGED ragVars

\* The timer of stopTalking fires.
IdleTimer ==
  /\ avatar.idleTimers # <<>>
  /\ Head(avatar.idleTimers) = 0
  /\ avatar' = BackToIdle([avatar EXCEPT !.idleTimers = Tail(@)])
  /\ UNCHANGED <<chat, speech>>
  /\ UNCHANGED ragVars

\* A loop timer fires, after the time its clip takes.
LoopTimer ==
  /\ \E talking, held \in BOOLEAN :
       /\ IF held THEN avatar.loopTimeout = (IF talking THEN "talking" ELSE "idle")
                  ELSE avatar.loopTimers[talking] > 0
       /\ avatar' = LoopAgain(avatar, talking, held)
  /\ UNCHANGED <<chat, speech>>
  /\ UNCHANGED ragVars

\* The fades of a call of playRandomAnimation end.
PlayFaded ==
  /\ \E isLooping \in BOOLEAN :
       /\ avatar.plays[isLooping] > 0
       /\ avatar' = PlayEnd(avatar, isLooping)
  /\ UNCHANGED <<chat, speech>>
  /\ UNCHANGED ragVars

\* No call of calculateAdvancedSimilarity made on its own yet.
NoSimilarity ==
  [called |-> FALSE, query |-> "", text |-> "", boost |-> 0, threw |-> FALSE,
   score |-> <<0, 1>>]

NoLog ==
  [n |-> 0, question |-> "", key |-> "", started |-> 0, returned |-> 0,
   prior |-> [known |-> FALSE, response |-> "", branch |-> "", at |-> 0],
   lookup |-> NoLookup, fromCache |-> FALSE, source |-> "none", fetchFailed |-> FALSE,
   resume |-> DefaultProfile, faults |-> {}, ran |-> {}, normalizedQuestion |-> "",
   intents |-> <<>>, relevantInfo |-> "", extractThrew |-> FALSE, escaped |-> FALSE,
   branch |-> "none", status |-> "none", response |-> "", answer |-> "",
   stored |-> FALSE, cacheBefore |-> <<>>,
   contextBefore |-> InitialContext, contextAfter |-> InitialContext]

\* What a lookup did, for the history variables.
LookupRecord(cache, query, now) ==
  LET key    == CacheKey(query)
      found  == CacheHas(cache, key)
      result == getCachedResponse(cache, query, now)
  IN [found      |-> found,
      age        |-> IF found THEN now - CacheGet(cache, key).timestamp ELSE 0,
      stored     |-> IF found THEN CacheGet(cache, key).response ELSE "",
      hit        |-> result.hit,
      response   |-> result.response,
      removed    |-> found /\ ~CacheHas(result.cache, key),
      othersKept |-> SelectSeq(result.cache, LAMBDA e : e[1] # key)
                       = SelectSeq(cache, LAMBDA e : e[1] # key),
      alias      |-> FreshAlias(cache, query, now)]

(***************************************************************************)
(* Initial states                                                          *)
(***************************************************************************)

\* The state after the modules are loaded.
Init ==
  /\ document \in Documents
  /\ cachedResumeData = <<>>
  /\ responseCache = <<>>
  /\ clock = 0
  /\ conversationContext = InitialContext
  /\ conversationHistory = <<>>
  /\ chatHistory = <<>>
  /\ pending = {}
  /\ calls = 0
  /\ ticks = 0
  /\ adds = [rag |-> 0, chat |-> 0]
  /\ log = NoLog
  /\ answered = [k \in Keys |-> NoLog.prior]
  /\ appended = <<>>
  /\ addedRag = <<>>
  /\ addedChat = <<>>
  /\ similarity = NoSimilarity
  /\ matching = NoMatching
  /\ chat = InitialChat
  /\ speech = InitialSpeech
  /\ avatar = InitialAvatar

\* The i-th of a run of earlier questions that no branch but the smart
\* fallback answers and that leave the context as it was.
EarlierQuestion(i) == "earlier question " \o ToString(i)

EarlierResponse ==
  SmartFallback([keywords |-> <<>>], <<>>, InitialContext)

\* The two history entries of the i-th earlier question, asked at time i.
EarlierEntry(j) ==
  LET i == (j + 1) \div 2
  IN IF j % 2 = 1
     THEN [role |-> "user", content |-> EarlierQuestion(i), timestamp |-> i]
     ELSE [role |-> "assistant", content |-> EarlierResponse, timestamp |-> i]

\* The state after n earlier questions were answered one millisecond apart,
\* the fetch of the document having failed each time.
InitAfter(n) ==
  /\ document \in Documents
  /\ cachedResumeData = <<>>
  /\ responseCache = [i \in 1..n |->
                        <<EarlierQuestion(i), [response |-> EarlierResponse, timestamp |-> i]>>]
  /\ clock = n
  /\ conversationContext = InitialContext
  /\ conversationHistory = LastN([j \in 1..(2 * n) |-> EarlierEntry(j)], HistoryLimit)
  /\ chatHistory = <<>>
  /\ pending = {}
  /\ calls = 0
  /\ ticks = 0
  /\ adds = [rag |-> 0, chat |-> 0]
  /\ log = NoLog
  /\ answered = [k \in Keys |-> NoLog.prior]
  /\ appended = <<>>
  /\ addedRag = LastN([j \in 1..(2 * n) |-> EarlierEntry(j)], HistoryLimit)
  /\ addedChat = <<>>
  /\ similarity = NoSimilarity
  /\ matching = NoMatching
  /\ chat = InitialChat
  /\ speech = InitialSpeech
  /\ avatar = InitialAvatar

InitCache == InitAfter(CacheLimit - Headroom)

(***************************************************************************)
(* Actions                                                                 *)
(***************************************************************************)

\* Time passes between two events.
Tick(d) ==
  /\ ticks < MaxTicks
  /\ ticks' = ticks + 1
  /\ clock' = clock + d
  /\ UNCHANGED <<document, cachedResumeData, responseCache, conversationContext,
                 conversationHistory, chatHistory, pending, calls, adds, log,
                 answered, appended, addedRag, addedChat, similarity, matching, chat, speech, avatar>>

\* The return of generateRAGResponse with the outcome of the pipeline, and
\* getEnhancedAnswer from there to its own return.
Return(call, resume, source, fetchFailed, faults, cache, history, added, outcome) ==
  LET question == call.question
      settled  == Settle(outcome)
      answer   == EnhancedAnswer(settled)
      after    == IF outcome.store
                  THEN cacheResponse(cache, question, outcome.response, clock)
                  ELSE cache
      entry    == [role |-> "assistant", content |-> answer, timestamp |-> clock]
  IN /\ responseCache' = after
     /\ conversationContext' = outcome.context
     /\ conversationHistory' = addToConversationHistory(history, "assistant", answer, clock)
     /\ addedRag' = Append(added, entry)
     /\ appended' = appended \o outcome.appended
     /\ answered' = [answered EXCEPT ![call.key] =
                       [known |-> TRUE, response |-> settled.response,
                        branch |-> outcome.branch, at |-> clock]]
     /\ log' = [n |-> call.id, question |-> question, key |-> call.key,
                started |-> call.started, returned |-> clock,
                prior |-> call.prior, lookup |-> call.lookup, fromCache |-> FALSE,
                source |-> source, fetchFailed |-> fetchFailed, resume |-> resume,
                faults |-> faults,
                ran |-> {"load", "normalize", "intent", "extract", "select"},
                normalizedQuestion |-> outcome.normalizedQuestion,
                intents |-> outcome.intents, relevantInfo |-> outcome.relevantInfo,
                extractThrew |-> outcome.extractThrew, escaped |-> outcome.escaped,
                branch |-> outcome.branch, status |-> settled.status,
                response |-> settled.response, answer |-> answer,
                stored |-> outcome.store,
                cacheBefore |-> IF outcome.store THEN cache ELSE <<>>,
                contextBefore |-> conversationContext, contextAfter |-> outcome.context]

\* A loadResumeData that fetches on every call.
AlwaysFetch(cached) == FALSE

\* The test of loadResumeData on entry: if (cachedResumeData) return it.
HasCachedResume(cached) == cached # <<>>

\* A generateRAGResponse that goes on with whatever the server holds.
NoDefaultProfile(ok, fetched) == fetched

\* The profile generateRAGResponse works on once loadResumeData has settled:
\* the fetched document, or the built-in profile of its catch block.
ProfileAfterLoad(ok, fetched) == IF ok THEN fetched ELSE DefaultProfile

\* generateRAGResponse from the point where it has a profile to its return,
\* and getEnhancedAnswer from there to its own return.
Respond(call, resume, source, fetchFailed, faults, pick, cache, history, added) ==
  Return(call, resume, source, fetchFailed, faults, cache, history, added,
         Pipeline(call.question, resume, conversationContext, faults, pick))

\* getEnhancedAnswer(question): the user entry is added to the history and
\* generateRAGResponse looks the question up; on a hit both return, on a miss
\* with the profile already loaded the pipeline runs to the end, otherwise
\* the call waits for loadResumeData.
getEnhancedAnswer(question, faults, pick, maxCalls) ==
  /\ calls < maxCalls
  /\ calls' = calls + 1
  /\ LET key     == CacheKey(question)
         lookup  == getCachedResponse(responseCache, question, clock)
         history == addToConversationHistory(conversationHistory, "user", question, clock)
         added   == Append(addedRag, [role |-> "user", content |-> question, timestamp |-> clock])
         call    == [id |-> calls + 1, question |-> question, key |-> key, started |-> clock,
                     prior |-> answered[key],
                     lookup |-> LookupRecord(responseCache, question, clock)]
     IN IF lookup.hit /\ lookup.response # ""
        THEN /\ responseCache' = lookup.cache
             /\ conversationHistory' =
                  addToConversationHistory(history, "assistant", lookup.response, clock)
             /\ addedRag' = Append(added, [role |-> "assistant", content |-> lookup.response,
                                           timestamp |-> clock])
             /\ answered' = [answered EXCEPT ![key] =
                               [known |-> TRUE, response |-> lookup.response,
                                branch |-> "cache", at |-> clock]]
             /\ log' = [NoLog EXCEPT !.n = call.id, !.question = question, !.key = key,
                                     !.started = clock, !.returned = clock,
                                     !.prior = call.prior, !.lookup = call.lookup,
                                     !.fromCache = TRUE, !.branch = "cache",
                                     !.status = "resolved", !.response = lookup.response,
                                     !.answer = lookup.response,
                                     !.contextBefore = conversationContext,
                                     !.contextAfter = conversationContext]
             /\ UNCHANGED <<cachedResumeData, conversationContext, pending, appended>>
        ELSE IF HasCachedResume(cachedResumeData)
        THEN /\ Respond(call, cachedResumeData[1], "loaded", FALSE, faults, pick,
                        lookup.cache, history, added)
             /\ UNCHANGED <<cachedResumeData, pending>>
        ELSE /\ pending' = pending \cup {call}
             /\ responseCache' = lookup.cache
             /\ conversationHistory' = history
             /\ addedRag' = added
             /\ UNCHANGED <<cachedResumeData, conversationContext, log, answered, appended>>
  /\ UNCHANGED <<document, clock, chatHistory, ticks, adds, addedChat, similarity, matching, chat, speech, avatar>>

\* loadResumeData settles for a waiting call: with the fetched document,
\* which it keeps in cachedResumeData, or with an error, on which
\* generateRAGResponse takes its built-in profile; the call then runs to its end.
loadResumeData(call, ok, faults, pick) ==
  /\ call \in pending
  /\ pending' = pending \ {call}
  /\ cachedResumeData' = IF ok THEN <<document>> ELSE cachedResumeData
  /\ Respond(call, ProfileAfterLoad(ok, document),
             IF ok THEN "fetched" ELSE "default", ~ok, faults, pick,
             responseCache, conversationHistory, addedRag)
  /\ UNCHANGED <<document, clock, chatHistory, calls, ticks, adds, addedChat, similarity, matching, chat, speech, avatar>>

\* The role of the n-th message of a conversation: user and assistant alternate.
RoleOf(n) == IF n % 2 = 1 THEN "user" ELSE "assistant"

\* addToConversationHistory of localRAG called directly; the messages are
\* numbered so that each can be told from the others.
AddToRagHistory ==
  /\ adds.rag < MaxAdds
  /\ adds' = [adds EXCEPT !.rag = @ + 1]
  /\ conversationHistory' =
       addToConversationHistory(conversationHistory, RoleOf(adds.rag + 1),
                                ToString(adds.rag + 1), clock)
  /\ addedRag' = Append(addedRag, [role |-> RoleOf(adds.rag + 1),
                                   content |-> ToString(adds.rag + 1), timestamp |-> clock])
  /\ UNCHANGED <<document, cachedResumeData, responseCache, clock, conversationContext,
                 chatHistory, pending, calls, ticks, log, answered, appended, addedChat,
                 similarity, matching, chat, speech, avatar>>

\* clearConversationHistory of localRAG.
ClearRagHistory ==
  /\ conversationHistory' = clearConversationHistory(conversationHistory)
  /\ addedRag' = <<>>
  /\ UNCHANGED <<document, cachedResumeData, responseCache, clock, conversationContext,
                 chatHistory, pending, calls, ticks, adds, log, answered, appended,
                 addedChat, similarity, matching, chat, speech, avatar>>

\* addToConversationHistory of enhancedChat.
AddToChatHistory ==
  /\ adds.chat < MaxAdds
  /\ adds' = [adds EXCEPT !.chat = @ + 1]
  /\ chatHistory' =
       addToConversationHistory(chatHistory, RoleOf(adds.chat + 1),
                                ToString(adds.chat + 1), clock)
  /\ addedChat' = Append(addedChat, [role |-> RoleOf(adds.chat + 1),
                                     content |-> ToString(adds.chat + 1), timestamp |-> clock])
  /\ UNCHANGED <<document, cachedResumeData, responseCache, clock, conversationContext,
                 conversationHistory, pending, calls, ticks, log, answered, appended,
                 addedRag, similarity, matching, chat, speech, avatar>>

\* clearConversationHistory of enhancedChat.
ClearChatHistory ==
  /\ chatHistory' = clearConversationHistory(chatHistory)
  /\ addedChat' = <<>>
  /\ UNCHANGED <<document, cachedResumeData, responseCache, clock, conversationContext,
                 conversationHistory, pending, calls, ticks, adds, log, answered,
                 appended, addedRag, similarity, matching, chat, speech, avatar>>

\* The texts extractRelevantInfo scores: name and description of a project,
\* title, company and description of an experience.
CandidateTexts ==
  {p.name \o " " \o p.description : p \in {SampleProfile.projects[i] : i \in 1..Len(SampleProfile.projects)}}
  \cup {e.title \o " " \o e.company \o " " \o e.description :
          e \in {SampleProfile.experience[i] : i \in 1..Len(SampleProfile.experience)}}

\* Queries for the similarity on its own: with no word longer than 2
\* characters, with words the texts hold, with a word no regular expression
\* can be built from.
SimilarityQueries ==
  {"", "ai", "hi", "go on", "any c++ work", "pomodoro app", "Aesculapius AI",
   "pega workflow automation work", "business intern", "what are your skills in ai"}

\* The boosts, in tenths: none, the default 1.0, and the 1.3 and 1.5 of
\* extractRelevantInfo.
Boosts == {0, 10, 13, 15}

\* What each of these calls does: whether it raises, and the score it
\* returns if it does not.
SimilarityOf ==
  [query \in SimilarityQueries |-> [text \in CandidateTexts |-> [boost \in Boosts |->
     [threw |-> SimilarityThrows(query),
      score |-> IF SimilarityThrows(query) THEN <<0, 1>>
                ELSE calculateAdvancedSimilarity(query, text, boost)]]]]

\* calculateAdvancedSimilarity(query, text, boost) called on its own.
Similarity(query, text, boost) ==
  /\ similarity' =
       [called |-> TRUE, query |-> query, text |-> text, boost |-> boost,
        threw  |-> SimilarityOf[query][text][boost].threw,
        score  |-> SimilarityOf[query][text][boost].score]
  /\ UNCHANGED <<document, cachedResumeData, responseCache, clock, conversationContext,
                 conversationHistory, chatHistory, pending, calls, ticks, adds, log,
                 answered, appended, addedRag, addedChat, matching, chat, speech, avatar>>

(***************************************************************************)
(* Specifications                                                          *)
(***************************************************************************)

\* The clock advances to just under the TTL or by the TTL.
Ticks == {CACHE_TTL - 1, CACHE_TTL}

\* Math.floor(Math.random() * greetings.length)
Picks == 0..4

\* Questions answered through the chat, the document arriving or failing to.
Next ==
  \/ \E q \in Questions, pick \in Picks : getEnhancedAnswer(q, {}, pick, MaxCalls)
  \/ \E call \in pending, ok \in BOOLEAN, pick \in Picks : loadResumeData(call, ok, {}, pick)

Spec == Init /\ [][Next]_vars

\* The same with exceptions raised in any of the stages.
FaultQuestions ==
  {"hi", "tell me about your projects", "any c++ work?", "what is your favorite color?"}

NextFaults ==
  \/ \E q \in FaultQuestions, faults \in SUBSET Stages, pick \in Picks :
       getEnhancedAnswer(q, faults, pick, MaxFaultCalls)
  \/ \E call \in pending, ok \in BOOLEAN, faults \in SUBSET Stages, pick \in Picks :
       loadResumeData(call, ok, faults, pick)

SpecFaults == Init /\ [][NextFaults]_vars

\* Longer conversations on the questions that carry several intents.
LongQuestions ==
  {"what are your skills in AI", "How do you balance academic projects?", "any c++ work?"}

NextLong ==
  \/ \E q \in LongQuestions : getEnhancedAnswer(q, {}, 0, MaxLongCalls)
  \/ \E call \in pending, ok \in BOOLEAN : loadResumeData(call, ok, {}, 0)

SpecLong == Init /\ [][NextLong]_vars

\* Two questions in a row out of ContextQuestions.
NextContext ==
  \/ \E q \in ContextQuestions, pick \in Picks : getEnhancedAnswer(q, {}, pick, MaxContextCalls)
  \/ \E call \in pending, ok \in BOOLEAN, pick \in Picks : loadResumeData(call, ok, {}, pick)

SpecContext == Init /\ [][NextContext]_vars

\* A cache that earlier questions have filled nearly to its limit, and time
\* passing between the calls.
CacheQuestions ==
  {"tell me about your projects", "why automation?", "what is your favorite color?", "hi"}

NextCache ==
  \/ \E d \in Ticks : Tick(d)
  \/ \E q \in CacheQuestions, pick \in Picks : getEnhancedAnswer(q, {}, pick, MaxCacheCalls)
  \/ \E call \in pending, ok \in BOOLEAN, pick \in Picks : loadResumeData(call, ok, {}, pick)

SpecCache == InitCache /\ [][NextCache]_vars

\* The two history arrays used directly.
NextHistory ==
  \/ AddToRagHistory
  \/ ClearRagHistory
  \/ AddToChatHistory
  \/ ClearChatHistory

SpecHistory == Init /\ [][NextHistory]_vars

\* The similarity called on its own.
NextSimilarity ==
  \E query \in SimilarityQueries, text \in CandidateTexts, boost \in Boosts :
    Similarity(query, text, boost)

SpecSimilarity == Init /\ [][NextSimilarity]_vars

\* The template lookup called on its own.
NextPatterns == \E question \in PatternQuestions : Matching(question)

SpecPatterns == Init /\ [][NextPatterns]_vars

\* A visitor at the chat window: questions, the mute and stop buttons, the
\* answers, the speech engine, the timers and the avatar.
NextChat ==
  \/ \E input \in Inputs : handleSend(input)
  \/ \E question \in suggestedQuestions : handleSuggestedQuestion(question)
  \/ \E resolution \in Resolutions : Resolved(resolution)
  \/ \E reported \in BOOLEAN : ShowAnswer(reported)
  \/ UtteranceStart
  \/ UtteranceEnd
  \/ UtteranceError
  \/ UtteranceRemoved
  \/ ToggleMute
  \/ \E reported \in BOOLEAN : stopSpeech(reported)
  \/ TimePasses
  \/ StartTimer
  \/ IdleTimer
  \/ LoopTimer
  \/ PlayFaded

SpecChat == Init /\ [][NextChat]_vars

\* The same where time passes, due timers fire, fades end and the promise of
\* getEnhancedAnswer settles: the event loop runs every callback that is due.
FairChat ==
  /\ WF_vars(TimePasses)
  /\ WF_vars(StartTimer)
  /\ WF_vars(IdleTimer)
  /\ WF_vars(LoopTimer)
  /\ WF_vars(PlayFaded)
  /\ WF_vars(\E resolution \in Resolutions : Resolved(resolution))
  /\ WF_vars(\E reported \in BOOLEAN : ShowAnswer(reported))

SpecChatFair == Init /\ [][NextChat]_vars /\ FairChat

(***************************************************************************)
(* Properties                                                              *)
(***************************************************************************)

\* C1: every call that returned, whatever stages raised and whether or not
\* the fetch of the profile failed, resolved generateRAGResponse with a
\* non-empty response, and getEnhancedAnswer resolved with a non-empty answer.
C1_AlwaysResponds ==
  log.n > 0 =>
    /\ log.status = "resolved"
    /\ log.response # ""
    /\ log.answer # ""
    /\ log.answer = log.response

\* A call returned after the fetch failed and every stage raised.
C1_Witness ==
  /\ log.n > 0
  /\ log.fetchFailed
  /\ log.faults = Stages
  /\ log.escaped
  /\ log.response = Apology(log.contextAfter)

\* C2: a call whose question was last answered less than the TTL before it
\* started is answered from the cache with the same response, whichever
\* branch gave the earlier answer.
C2_EveryBranch ==
  (log.n > 0 /\ log.prior.known /\ log.started - log.prior.at < CACHE_TTL) =>
    /\ log.fromCache
    /\ log.response = log.prior.response

\* C3: a question that matchQuestionPattern recognises and that is not
\* answered from the cache gets the paragraph of its pattern, before any
\* other branch.
C3_PatternFirst ==
  ( /\ log.n > 0
    /\ ~log.fromCache
    /\ QuestionTestsOf[log.question].pattern # "null" ) =>
    /\ log.branch = "pattern"
    /\ log.response = getPatternResponse(QuestionTestsOf[log.question].pattern)

\* C4: the response cache never holds more than 50 entries.
C4_AtMostFifty == Len(responseCache) <= CacheLimit

\* A response was stored under a new key in a cache that held 50 entries,
\* and the cache holds 50 entries.
C4_Witness ==
  /\ log.stored
  /\ Len(log.cacheBefore) = CacheLimit
  /\ ~CacheHas(log.cacheBefore, log.key)
  /\ Len(responseCache) = CacheLimit

\* C5: a call that stores its response under a key not yet present in a
\* cache of 50 entries removes the first entry (the key inserted earliest)
\* and nothing else, and the new entry comes last; storing under a key that
\* is present replaces its entry in place and removes nothing; storing in a
\* cache with room appends.
C5_EvictsOldest ==
  [][ (log'.n # log.n /\ log'.stored) =>
        LET before == log'.cacheBefore
            after  == responseCache'
            entry  == <<log'.key, [response |-> log'.response, timestamp |-> log'.returned]>>
        IN IF CacheHas(before, log'.key)
           THEN /\ Len(after) = Len(before)
                /\ \A i \in 1..Len(before) :
                     after[i] = IF before[i][1] = log'.key THEN entry ELSE before[i]
           ELSE IF Len(before) = CacheLimit
           THEN after = Append(Tail(before), entry)
           ELSE after = Append(before, entry) ]_vars

\* The 51st key was stored: the first of the earlier questions is gone, the
\* second now comes first, and the new key comes last.
C5_Witness ==
  /\ log.stored
  /\ Len(log.cacheBefore) = CacheLimit
  /\ log.cacheBefore[1][1] = EarlierQuestion(1)
  /\ ~CacheHas(responseCache, EarlierQuestion(1))
  /\ responseCache[1][1] = EarlierQuestion(2)
  /\ responseCache[Len(responseCache)][1] = log.key

\* C6: the lookup of every call that returned gave the stored response
\* exactly when the entry was present and younger than the TTL; an entry at
\* or past the TTL was reported absent and removed; an entry younger than
\* the TTL was not removed, and no other entry was touched.
C6_Lookup ==
  log.n > 0 =>
    /\ log.lookup.hit <=> (log.lookup.found /\ log.lookup.age < CACHE_TTL)
    /\ log.lookup.hit => log.lookup.response = log.lookup.stored
    /\ log.lookup.removed <=> (log.lookup.found /\ log.lookup.age >= CACHE_TTL)
    /\ log.lookup.othersKept

\* A lookup found an entry whose age was exactly the TTL, reported it absent
\* and removed it.
C6_Witness ==
  /\ log.n > 0
  /\ log.lookup.found
  /\ log.lookup.age = CACHE_TTL
  /\ ~log.lookup.hit
  /\ log.lookup.removed

\* C7: topics holds at most 10 entries, the last 10 of all the intents
\* appended so far, in the order they were appended.
C7_LastTenTopics ==
  /\ Len(conversationContext.topics) <= 10
  /\ conversationContext.topics = LastN(appended, 10)

\* More than 10 intents were appended and the oldest have gone.
C7_Witness ==
  /\ Len(appended) > 10
  /\ Len(conversationContext.topics) = 10
  /\ appended[1] # appended[Len(appended) - 9]
  /\ conversationContext.topics[1] = appended[Len(appended) - 9]

\* C8: each history array holds at most 12 entries, the last 12 of those
\* added since it was last cleared, in the order they were added (so it is
\* empty after clearConversationHistory).
C8_LastTwelveMessages ==
  /\ Len(conversationHistory) <= HistoryLimit
  /\ conversationHistory = LastN(addedRag, HistoryLimit)
  /\ Len(chatHistory) <= HistoryLimit
  /\ chatHistory = LastN(addedChat, HistoryLimit)

\* More than 12 messages were added to each array since it was cleared, and
\* the array of enhancedChat had been cleared before.
C8_Witness ==
  /\ Len(addedRag) > HistoryLimit
  /\ Len(conversationHistory) = HistoryLimit
  /\ conversationHistory[1] = addedRag[Len(addedRag) - HistoryLimit + 1]
  /\ Len(addedChat) > HistoryLimit
  /\ Len(chatHistory) = HistoryLimit
  /\ adds.chat > Len(addedChat)

\* C9: a call for which the fetch of the profile failed worked on the
\* built-in profile and was answered by the branch the selection chain picks
\* for its question after normalization, intent detection and extraction on
\* that profile; it was not answered with the apology and did not reject.
C9_DefaultProfile ==
  (log.n > 0 /\ log.fetchFailed) =>
    /\ log.resume = DefaultProfile
    /\ log.status = "resolved"
    /\ ~log.escaped
    /\ log.response # Apology(log.contextAfter)
    /\ log.normalizedQuestion = NormalizedOf[log.question]
    /\ log.intents = IntentsOf[log.normalizedQuestion]
    /\ \E pick \in Picks :
         LET extraction == extractRelevantInfo(DefaultProfile, log.normalizedQuestion,
                                               log.contextBefore)
             selected   == SelectResponse(QuestionTestsOf[log.question], log.intents,
                                          extraction.context, pick)
         IN /\ log.relevantInfo = extraction.info
            /\ log.branch = selected.branch
            /\ log.response = selected.response
            /\ log.contextAfter = selected.context

\* The fetch failed and a question about skills was answered by the skills
\* branch, the extraction having worked on the skills of the built-in profile.
C9_Witness ==
  /\ log.n > 0
  /\ log.fetchFailed
  /\ log.question = "what are your skills in AI"
  /\ log.branch = "skills"
  /\ log.relevantInfo = "AI SKILLS: AI/ML"

\* C10: with a profile that has no projects field, "tell me about your
\* projects" raises nothing and is answered with the generic summary (name,
\* professional summary and key skills).
C10_GenericSummary ==
  ( /\ log.n > 0
    /\ ~log.fromCache
    /\ log.question = "tell me about your projects"
    /\ ~Present(log.resume, "projects") ) =>
    /\ ~log.escaped
    /\ ~log.extractThrew
    /\ log.response = GeneralOverview(log.resume)

\* C11: a question for which the greeting/introduction test holds, and that
\* is not answered from the cache, is answered with the identity block of the
\* profile (name, location, contact, bio, summary), before the template
\* lookup and the section extraction.
C11_IdentityBlock ==
  ( /\ log.n > 0
    /\ ~log.fromCache
    /\ IsIntroQuery(ToLower(log.normalizedQuestion)) ) =>
    log.response = IntroBlock(log.resume)

\* The questions normalizeQuery finds no typo in.
TypoFree == {q \in Questions : FixTypos(LowerTrimmedOf[q], 1) = LowerTrimmedOf[q]}

\* normalizeQuery applied to its own result, for each question.
TwiceNormalizedOf == [q \in Questions |-> normalizeQuery(NormalizedOf[q])]

\* C12: for a question without typos, normalizeQuery applied to the
\* normalized question a call worked on returns it unchanged.
C12_Idempotent ==
  ( /\ log.n > 0
    /\ ~log.fromCache
    /\ log.question \in TypoFree
    /\ log.normalizedQuestion = NormalizedOf[log.question] ) =>
    TwiceNormalizedOf[log.question] = log.normalizedQuestion

C14_NormalizedKey ==
  (log.n > 0 /\ log.lookup.alias # "") =>
    /\ log.fromCache
    /\ log.response = log.lookup.alias

\* C15: once loadResumeData has stored the profile, no step changes the
\* stored profile, and a query that starts afterwards does not wait for a
\* fetch: it is answered from the cache or works on the stored profile.
C15_LoadedOnce ==
  [][ cachedResumeData # <<>> =>
        /\ cachedResumeData' = cachedResumeData
        /\ calls' = calls + 1 =>
             /\ pending' = pending
             /\ log'.n = calls'
             /\ \/ log'.fromCache
                \/ log'.source = "loaded" /\ log'.resume = cachedResumeData[1] ]_vars

\* A second query, not answered from the cache, ran through the pipeline on
\* the profile the first one had fetched.
C15_Witness ==
  /\ log.n = 2
  /\ ~log.fromCache
  /\ log.source = "loaded"
  /\ log.branch # "none"
  /\ cachedResumeData = <<log.resume>>
  /\ log.resume = document

\* C16: every score calculateAdvancedSimilarity returned for a non-negative
\* boost is a non-negative number (a non-negative sum over a positive
\* divisor), also for a query with no word longer than 2 characters.
C16_NonNegative ==
  (similarity.called /\ ~similarity.threw /\ similarity.boost >= 0) =>
    /\ similarity.score[1] >= 0
    /\ similarity.score[2] > 0

\* A query with no word longer than 2 characters got a positive score from
\* the exact-phrase term alone.
C16_Witness ==
  /\ similarity.called
  /\ ~similarity.threw
  /\ similarity.query = "ai"
  /\ QueryWords(similarity.query) = <<>>
  /\ similarity.boost = 15
  /\ similarity.score = <<450, 1>>

C18_ExtractionBypassed ==
  ( /\ log.n > 0
    /\ ~log.fromCache
    /\ QuestionTestsOf[log.question].pattern # "null" ) =>
    log.contextAfter = log.contextBefore

\* C19: extractRelevantInfo raised no exception in any call that ran it,
\* whatever the profile and whatever characters the query holds.
C19_ExtractionNeverThrows ==
  (log.n > 0 /\ ~log.fromCache /\ "extract" \in log.ran) => ~log.extractThrew

\* intentScores after the keyword loop of detectIntent, for each query string:
\* the keyword sum of every intent of the taxonomy whose sum is positive.
KeywordSumsOf == [s \in QueryStrings |-> KeywordEntries(ToLower(s), 1)]

\* intentScores when detectIntent sorts it, for each query string.
IntentScoresOf == [s \in QueryStrings |-> intentScores(s)]

\* C20: for the query a call classified, every intent of the taxonomy with a
\* positive keyword sum is ranked by exactly that sum; the fixed scores of the
\* regular-expression battery leave the keyword-derived scores as they are.
C20_KeywordSum ==
  (log.n > 0 /\ ~log.fromCache) =>
    \A i \in 1..Len(KeywordSumsOf[log.normalizedQuestion]) :
      \E j \in 1..Len(IntentScoresOf[log.normalizedQuestion]) :
        IntentScoresOf[log.normalizedQuestion][j] = KeywordSumsOf[log.normalizedQuestion][i]

\* The intents in the order detectIntent first scores them, for each query
\* string: the intents of the taxonomy with a keyword match, in taxonomy
\* order, then the intents of the regular-expression battery not among them.
FirstScoredOf ==
  [s \in QueryStrings |->
     LET keyword  == [i \in 1..Len(KeywordSumsOf[s]) |-> KeywordSumsOf[s][i][1]]
         injected == SelectSeq(IntentPatterns,
                               LAMBDA r : RegexTest(s, r[1]) /\ ~Has(keyword, r[2]))
     IN keyword \o [i \in 1..Len(injected) |-> injected[i][2]]]

\* C21: the intents a call got from detectIntent are the intents that were
\* given a score, each once, all with a positive score; they are ordered by
\* descending score, and of two intents with the same score the one scored
\* first comes first.
C21_StableRanking ==
  (log.n > 0 /\ ~log.fromCache) =>
    LET scores == IntentScoresOf[log.normalizedQuestion]
        first  == FirstScoredOf[log.normalizedQuestion]
        at(name)    == CHOOSE i \in 1..Len(first) : first[i] = name
        score(name) == scores[CHOOSE i \in 1..Len(scores) : scores[i][1] = name][2]
    IN /\ Len(log.intents) = Len(first)
       /\ {log.intents[i] : i \in 1..Len(log.intents)} = {first[i] : i \in 1..Len(first)}
       /\ {scores[i][1] : i \in 1..Len(scores)} = {first[i] : i \in 1..Len(first)}
       /\ \A i \in 1..Len(scores) : scores[i][2] > 0
       /\ \A i, j \in 1..Len(log.intents) :
            i < j =>
              \/ score(log.intents[i]) > score(log.intents[j])
              \/ /\ score(log.intents[i]) = score(log.intents[j])
                 /\ at(log.intents[i]) < at(log.intents[j])

\* A query with two intents of the same score, one of the taxonomy and one
\* injected by the battery: the intent of the taxonomy is returned first.
C21_Witness ==
  /\ log.n > 0
  /\ ~log.fromCache
  /\ log.question = "When did you code?"
  /\ IntentScoresOf[log.normalizedQuestion] = << <<"technical", 2>>, <<"timeline", 2>> >>
  /\ log.intents = <<"technical", "timeline">>

\* The rules of matchQuestionPattern whose tests the question, as asked,
\* passes ("how can I contct you" passes none; normalized, with the typo
\* corrected, it would pass the contact rule).
RulesMatchingOf ==
  [q \in AllQuestions |-> {k \in 1..Len(QuestionPatterns) : PatternMatches(q, k)}]

\* C22: a call that reached the template lookup was answered with the
\* paragraph of the first rule, in the listed order, that matches the
\* question as asked; if no rule matches the question as asked, the lookup
\* returned null and another branch answered.
C22_FirstRuleWins ==
  (log.n > 0 /\ ~log.fromCache /\ log.branch # "project_direct") =>
    LET hits == RulesMatchingOf[log.question]
    IN IF hits = {}
       THEN log.branch # "pattern"
       ELSE /\ log.branch = "pattern"
            /\ \E k \in hits :
                 /\ \A j \in hits : k <= j
                 /\ log.response = getPatternResponse(QuestionPatterns[k][2])

\* A question that two rules match (why_ou through "why ... ou", and the
\* later why_hire) was answered with the paragraph of the earlier one.
C22_Witness ==
  /\ log.n > 0
  /\ ~log.fromCache
  /\ log.question = "Why should we hire you?"
  /\ Cardinality(RulesMatchingOf[log.question]) = 2
  /\ log.branch = "pattern"
  /\ log.response = PatternResponses.why_ou

\* The value a rule group would assign if its tests were consecutive
\* independent if statements, the later assignment standing: "keep" when no
\* test passes.
LastRuleWins(query, first, firstValue, second, secondValue) ==
  IF HasAnyWord(query, second) THEN secondValue
  ELSE IF HasAnyWord(query, first) THEN firstValue
  ELSE "keep"

LastSentimentOf ==
  [s \in QueryStrings |->
     LastRuleWins(s, {"cool", "awesome", "interesting", "great", "amazing"}, "casual",
                     {"experience", "professional", "qualification", "expertise"}, "professional")]

LastDepthOf ==
  [s \in QueryStrings |->
     LastRuleWins(s, {"more", "detail", "specific", "elaborate", "deep"}, "detailed",
                     {"quickly", "brief", "summary", "overview"}, "overview")]

\* C23: after a call that ran updateContext, sentiment and depth each hold
\* the value of the last rule of their group that the query matches, and the
\* value they had before when the query matches no rule of the group.
C23_LastRuleWins ==
  (log.n > 0 /\ ~log.fromCache) =>
    LET query == log.normalizedQuestion
    IN /\ log.contextAfter.sentiment =
            IF LastSentimentOf[query] = "keep" THEN log.contextBefore.sentiment
            ELSE LastSentimentOf[query]
       /\ log.contextAfter.depth =
            IF LastDepthOf[query] = "keep" THEN log.contextBefore.depth
            ELSE LastDepthOf[query]

\* C24: after a call that ran updateContext, sentiment and depth hold what
\* the two rule groups give for the question as asked (lower-cased and
\* trimmed): the words normalization appended changed neither.
C24_RawQueryDecides ==
  (log.n > 0 /\ ~log.fromCache) =>
    LET raw == LowerTrimmedOf[log.question]
    IN /\ log.contextAfter.sentiment =
            IF SentimentOf[raw] = "keep" THEN log.contextBefore.sentiment
            ELSE SentimentOf[raw]
       /\ log.contextAfter.depth =
            IF DepthOf[raw] = "keep" THEN log.contextBefore.depth
            ELSE DepthOf[raw]

\* C25: every call of generateRAGResponse, a call answered from the cache
\* included, ran updateContext once: the topic list after the call is the
\* list before it with the intents of the call's query appended (the last
\* ten kept).
C25_ContextOnEveryCall ==
  (log.n > 0 /\ log.status = "resolved" /\ "normalize" \notin log.faults) =>
    log.contextAfter.topics =
      AppendTopics(log.contextBefore.topics, IntentsOf[NormalizedOf[log.question]])

\* C29: a follow-up question, not answered from the cache, that comes when
\* the last topic recorded by the earlier questions is projects is answered
\* with the projects continuation.
C29_FollowUpTopic ==
  ( /\ log.n > 0
    /\ ~log.fromCache
    /\ QuestionTestsOf[log.question].followUp
    /\ log.contextBefore.topics # <<>>
    /\ log.contextBefore.topics[Len(log.contextBefore.topics)] = "projects" ) =>
    log.branch = "follow_up"

\* C28: no rule of matchQuestionPattern is completely shadowed: every rule
\* whose tests the question of a call passes, the first or a later one, is
\* the rule that answers some question, so that its name, and with it every
\* name with a paragraph in getPatternResponse, is returned for a question.
C28_EveryPatternReachable ==
  matching.called =>
    \A k \in 1..Len(QuestionPatterns) :
      PatternMatches(matching.question, k) =>
        \E question \in PatternQuestions : PatternOf[question] = QuestionPatterns[k][2]

\* The avatar at rest: not talking, no interval moving the mouth, and the
\* idle clip playing in its loop (its next round set, being faded in, or about
\* to be started by the timer of stopTalking).
AvatarIdle ==
  /\ ~avatar.isTalkingRef
  /\ avatar.intervals = {}
  /\ \/ avatar.loopTimeout = "idle"
     \/ avatar.loopTimers[FALSE] > 0
     \/ avatar.plays[FALSE] > 0
     \/ avatar.plays[TRUE] > 0
     \/ avatar.idleTimers # <<>>

\* C26: when stopTalking has been called and startTalking is not called
\* again, the avatar comes to rest and stays at rest, however short the time
\* between the call of startTalking and that of stopTalking.
C26_StopMeansIdle == <>[](avatar.lastHook = "stop") => <>[]AvatarIdle

\* Whether every question of the list has its answer and nothing is awaited.
Answered ==
  /\ ~chat.isTyping
  /\ Len(chat.messages) = 2 * Len(UserMessages(chat.messages)) + 1

\* C27: after a question is sent, the list comes to hold an assistant message
\* for it and the typing indicator is cleared, whatever getEnhancedAnswer
\* resolved with.
C27_EveryQuestionAnswered == chat.isTyping ~> Answered

\* C30: no step taken while isMuted holds hands an utterance to the speech
\* engine or calls startTalking.
C30_MutedIsSilent ==
  [][ chat.isMuted =>
        /\ speech'.spoken = speech.spoken
        /\ Len(avatar'.startTimers) <= Len(avatar.startTimers) ]_vars

====
